---- MODULE Spec2Model ----
(***************************************************************************)
(* State-machine model of ApplyTune's keyword-insertion core:              *)
(*   - the three validation layers (tech_ecosystem_validator.py,           *)
(*     adaptive_tech_validator.py, llm_context_validator.py,               *)
(*     semantic_validator.py) and the pipeline that combines them          *)
(*     (multi_layer_validator.py),                                         *)
(*   - the keyword prioritizer (keyword_prioritizer.py),                   *)
(*   - the LaTeX editor (latex_optimizer.py) and the change ledger         *)
(*     (change_tracker.py).                                                *)
(* Each subsystem has its own specification (SpecV, SpecC, SpecP, SpecO);  *)
(* the variables of the other subsystems stay at their initial value.      *)
(***************************************************************************)
EXTENDS Integers, Sequences, FiniteSets, TLC

VARIABLES
    cfg,                  \* MultiLayerValidator.__init__: which layers exist
    model_loaded,         \* SemanticValidator._model_loaded
    vpc,                  \* position inside validate_keyword
    vin,                  \* arguments of the running validate_keyword call
    results,              \* validate_keyword's local dict `results`
    vret,                 \* the dict validate_keyword returned (None before)
    stats,                \* MultiLayerValidator.stats
    compatibility_cache,  \* AdaptiveTechValidator.compatibility_cache
    l3call,               \* last validate_keyword_similarity call and its result
    l1call,               \* last direct call of the AI-backed Layer 1 and its result
    pjd,                  \* prioritizer: the job description (a token sequence)
    pkw,                  \* prioritizer: the caller's candidate list
    pout,                 \* prioritizer: the lists returned so far, oldest first
    latex_content,        \* optimizer: argument latex_content (a character sequence)
    missing_keywords,     \* optimizer: the caller's list object missing_keywords
    job_description,      \* optimizer: argument job_description
    opc,                  \* position inside optimize_latex_resume
    items,                \* optimize_latex_resume's local `items`
    optimized_latex,      \* local `optimized_latex`
    added_keywords,       \* local `added_keywords`
    rejected_keywords,    \* local `rejected_keywords`
    keywords_to_process,  \* what the for loop over keywords_to_process has left
    changes_made,         \* LaTeXOptimizer.changes_made (the ledger)
    oret,                 \* the tuple optimize_latex_resume returned (None before)
    tracker,              \* a ChangeTracker: changes and _change_counter
    replayed,             \* the last apply_user_selections call and its result
    extracted,            \* the lists direct calls of _extract_items returned
    processed,            \* the terms the loop over keywords_to_process has visited
    best_bullet_idx,      \* the site the last placement search selected, -1 for None
    calls                 \* the locals of two optimize calls on one shared optimizer

vvars == <<cfg, model_loaded, vpc, vin, results, vret, stats, compatibility_cache>>
pvars == <<pjd, pkw, pout>>
ovars == <<latex_content, missing_keywords, job_description, opc, items,
           optimized_latex, added_keywords, rejected_keywords,
           keywords_to_process, changes_made, oret, tracker, replayed, processed, best_bullet_idx, calls,
           extracted>>
vars == <<cfg, model_loaded, vpc, vin, results, vret, stats, compatibility_cache,
          l3call, l1call, pjd, pkw, pout, latex_content, missing_keywords,
          job_description, opc, items, optimized_latex, added_keywords,
          rejected_keywords, keywords_to_process, changes_made, oret, tracker,
          replayed, extracted, processed, best_bullet_idx, calls>>

None == [isNone |-> TRUE]

(***************************************************************************)
(* Layer 1, static variant: TechEcosystemValidator                         *)
(***************************************************************************)

\* The names of self.ecosystems.
Ecosystems ==
    {"machine_learning", "devops", "backend", "frontend", "data_engineering",
     "systems", "testing", "general_cs"}

\* self.compatible_pairs, verbatim.
compatible_pairs ==
    { <<"machine_learning", "backend">>, <<"machine_learning", "data_engineering">>,
      <<"devops", "backend">>, <<"devops", "frontend">>,
      <<"devops", "machine_learning">>, <<"backend", "frontend">>,
      <<"backend", "data_engineering">>, <<"systems", "backend">>,
      <<"systems", "devops">>, <<"testing", "backend">>,
      <<"testing", "frontend">>, <<"general_cs", "backend">>,
      <<"general_cs", "frontend">>, <<"general_cs", "machine_learning">>,
      <<"general_cs", "devops">> }

\* The entries of the reverse index built by _build_keyword_lookup that occur
\* in (or contain) one of the sample strings below.
keyword_to_ecosystems ==
    [k \in {"kubernetes", "jest", "pytorch", "node.js", "rest api", "r", "qa",
            "etl", "pipeline", "c"} |->
        CASE k = "kubernetes" -> {"devops"}
          [] k = "jest"       -> {"testing"}
          [] k = "pytorch"    -> {"machine_learning"}
          [] k = "node.js"    -> {"backend"}
          [] k = "rest api"   -> {"backend"}
          [] k = "r"          -> {"machine_learning"}
          [] k = "qa"         -> {"testing"}
          [] k = "etl"        -> {"data_engineering"}
          [] k = "pipeline"   -> {"devops"}
          [] k = "c"          -> {"systems"}]

\* Sample candidate terms (already lower-cased and stripped, as
\* find_keyword_ecosystems does first) and sample bullet contexts.
Terms == {"kubernetes", "jest", "pytorch", "zig", "etl pipelines"}
Contexts == {"built rest apis using node.js", "led a team of 5", "did qa",
             "with etl"}

\* Python's `a in b` on the sample strings: the index entries that are
\* substrings of each sample string.
SubstringsOf(s) ==
    CASE s = "kubernetes"    -> {"kubernetes", "r"}
      [] s = "jest"          -> {"jest"}
      [] s = "pytorch"       -> {"pytorch", "r", "c"}
      [] s = "zig"           -> {}
      [] s = "etl pipelines" -> {"etl", "pipeline"}
      [] s = "built rest apis using node.js" -> {"rest api", "node.js", "r"}
      [] s = "led a team of 5" -> {}
      [] s = "did qa"        -> {"qa"}
      [] s = "with etl"      -> {"etl"}

\* The index entries that contain the sample string (keyword_lower in known_keyword).
SuperstringsOf(s) ==
    CASE s = "etl pipelines" -> {}
      [] s = "zig"           -> {}
      [] OTHER               -> {s} \cap DOMAIN keyword_to_ecosystems

find_keyword_ecosystems(keyword) ==
    IF keyword \in DOMAIN keyword_to_ecosystems
    THEN keyword_to_ecosystems[keyword]
    ELSE UNION { keyword_to_ecosystems[k] :
                    k \in SubstringsOf(keyword) \cup SuperstringsOf(keyword) }

extract_context_ecosystems(context) ==
    UNION { keyword_to_ecosystems[k] : k \in SubstringsOf(context) }

are_ecosystems_compatible(eco1, eco2) ==
    \/ eco1 = eco2
    \/ <<eco1, eco2>> \in compatible_pairs
    \/ <<eco2, eco1>> \in compatible_pairs

\* A mutant of the static Layer 1 decision: an unknown keyword is checked
\* against the context like a known one (and so is rejected).
TechDecisionNoUnknownGuard(keyword_ecosystems, context_ecosystems) ==
    IF context_ecosystems = {} /\ keyword_ecosystems # {}
    THEN [valid |-> TRUE, confidence |-> "MEDIUM"]
    ELSE IF \E ke \in keyword_ecosystems, ce \in context_ecosystems :
                are_ecosystems_compatible(ke, ce)
    THEN [valid |-> TRUE, confidence |-> "HIGH"]
    ELSE [valid |-> FALSE, confidence |-> "HIGH"]

\* The decision of TechEcosystemValidator.validate_keyword_in_context on the
\* two ecosystem lists.
TechDecision(keyword_ecosystems, context_ecosystems) ==
    IF keyword_ecosystems = {}
    THEN [valid |-> TRUE, confidence |-> "LOW"]
    ELSE IF context_ecosystems = {}
    THEN [valid |-> TRUE, confidence |-> "MEDIUM"]
    ELSE IF \E ke \in keyword_ecosystems, ce \in context_ecosystems :
                are_ecosystems_compatible(ke, ce)
    THEN [valid |-> TRUE, confidence |-> "HIGH"]
    ELSE [valid |-> FALSE, confidence |-> "HIGH"]

TechValidate(keyword, context) ==
    LET ke == find_keyword_ecosystems(keyword)
        ce == extract_context_ecosystems(context)
        d  == TechDecision(ke, ce)
    IN  [valid |-> d.valid, confidence |-> d.confidence,
         keyword_ecosystems |-> ke, context_ecosystems |-> ce,
         source |-> "static"]

(***************************************************************************)
(* Layer 1, AI-backed variant: AdaptiveTechValidator                       *)
(***************************************************************************)

\* What the chat-completion service can answer to the Layer 1 prompt: the
\* call raises, the answer is not JSON, the answer is JSON but no object, or
\* it is an object whose keys may be absent.
L1Replies ==
    { [kind |-> k, compatible |-> "absent", confidence |-> "absent"] :
        k \in {"raise", "badjson", "notdict"} }
    \cup
    [kind : {"ok"}, compatible : {"true", "false", "absent"},
     confidence : {"HIGH", "MEDIUM", "absent"}]

\* cache_key = f"{keyword.lower()}::{context[:50].lower()}"; the sample
\* strings are lower case and shorter than 50 characters.
CacheKey(keyword, context) == <<keyword, context>>

\* The fallback dict of both except branches.
AdaptiveFallback ==
    [valid |-> TRUE, confidence |-> "LOW",
     keyword_ecosystems |-> {}, context_ecosystems |-> {}, source |-> "fallback"]

\* validation_result built from a parsed reply (result.get with defaults).
AdaptiveParsed(reply) ==
    [valid |-> (reply.compatible = "true"),
     confidence |-> IF reply.confidence = "absent" THEN "LOW" ELSE reply.confidence,
     keyword_ecosystems |-> {}, context_ecosystems |-> {}, source |-> "ok"]

\* A mutant of the except branches: a failed call is reported as a rejection.
AdaptiveOnFailureRejects(reply) ==
    IF reply.kind = "ok" THEN AdaptiveParsed(reply)
    ELSE [AdaptiveFallback EXCEPT !.valid = FALSE, !.confidence = "HIGH",
                                  !.source = reply.kind]

\* AdaptiveTechValidator.validate_keyword_in_context after a cache miss:
\* "notdict" raises AttributeError on result.get, caught by `except Exception`.
\* The field `source` is not in the code's dict: it records which branch
\* produced the verdict ("ok", "raise", "badjson", "notdict", or "static").
AdaptiveResult(reply) ==
    [(IF reply.kind = "ok" THEN AdaptiveParsed(reply) ELSE AdaptiveFallback)
        EXCEPT !.source = reply.kind]

(***************************************************************************)
(* Layer 2: LLMContextValidator.validate_keyword_insertion                 *)
(***************************************************************************)

L2Replies ==
    { [kind |-> k, is_believable |-> "absent", confidence |-> "absent",
       risk_level |-> "absent"] : k \in {"raise", "badjson", "notdict"} }
    \cup
    [kind : {"ok"}, is_believable : {"true", "false", "absent"},
     confidence : {"HIGH", "MEDIUM", "absent"},
     risk_level : {"SAFE", "FABRICATION", "absent"}]

\* A mutant: a failed call is reported with the conservative FABRICATION risk.
LLMResultFailureIsFabrication(reply) ==
    IF reply.kind = "ok"
    THEN [valid |-> (reply.is_believable = "true"),
          confidence |-> IF reply.confidence = "absent" THEN "LOW" ELSE reply.confidence,
          risk_level |-> IF reply.risk_level = "absent" THEN "CAUTION" ELSE reply.risk_level,
          source |-> reply.kind]
    ELSE [valid |-> FALSE, confidence |-> "HIGH", risk_level |-> "FABRICATION",
          source |-> reply.kind]

LLMResult(reply) ==
    IF reply.kind = "ok"
    THEN [valid |-> (reply.is_believable = "true"),
          confidence |-> IF reply.confidence = "absent" THEN "LOW" ELSE reply.confidence,
          risk_level |-> IF reply.risk_level = "absent" THEN "CAUTION" ELSE reply.risk_level,
          source |-> reply.kind]
    ELSE [valid |-> TRUE, confidence |-> "LOW", risk_level |-> "CAUTION",
          source |-> reply.kind]

(***************************************************************************)
(* Layer 3: SemanticValidator                                              *)
(***************************************************************************)

\* Similarities are integers in units of 1/10000; similarity_score (rounded
\* to 3 decimals by the code) is in units of 1/1000.
HighSim == 6000             \* the literal 0.6 of validate_keyword_similarity
DefaultThreshold == 3000    \* threshold: float = 0.3
NeutralSim == 5000          \* the 0.5 returned when the model is unavailable

\* The cosine similarities the embedding model is taken to produce: a cosine
\* lies in [-1, 1]; the grid has both sides of each boundary.
SimGrid == {-10000, -2004, 0, 1502, 2996, 3000, 4500, 5996, 6000, 8000, 10000}

\* What the embedding capability can do when the model is loaded.
EmbedReplies == { [kind |-> "raise", sim |-> 0] } \cup [kind : {"ok"}, sim : SimGrid]

\* SemanticValidator.compute_similarity
compute_similarity(loaded, emb) ==
    IF ~loaded THEN NeutralSim
    ELSE IF emb.kind = "raise" THEN NeutralSim
    ELSE emb.sim

\* round(similarity, 3), in units of 1/1000 (no grid value is a tie).
Round3(sim) == (sim + 5) \div 10

\* A mutant of the thresholds: the lower boundary is exclusive.
SimilarityVerdictExclusive(similarity, threshold) ==
    IF similarity >= HighSim
    THEN [valid |-> TRUE, confidence |-> "HIGH", similarity_score |-> Round3(similarity)]
    ELSE IF similarity > threshold
    THEN [valid |-> TRUE, confidence |-> "MEDIUM", similarity_score |-> Round3(similarity)]
    ELSE [valid |-> FALSE, confidence |-> "HIGH", similarity_score |-> Round3(similarity)]

\* The body of validate_keyword_similarity after compute_similarity.
SimilarityVerdict(similarity, threshold) ==
    IF similarity >= HighSim
    THEN [valid |-> TRUE, confidence |-> "HIGH", similarity_score |-> Round3(similarity)]
    ELSE IF similarity >= threshold
    THEN [valid |-> TRUE, confidence |-> "MEDIUM", similarity_score |-> Round3(similarity)]
    ELSE [valid |-> FALSE, confidence |-> "HIGH", similarity_score |-> Round3(similarity)]

\* The field `available` is not in the code's dict: it records whether the
\* score came from the embedding model or is the neutral fallback.
validate_keyword_similarity(loaded, emb, threshold) ==
    LET v == SimilarityVerdict(compute_similarity(loaded, emb), threshold)
    IN  [valid |-> v.valid, confidence |-> v.confidence,
         similarity_score |-> v.similarity_score,
         available |-> (loaded /\ emb.kind = "ok")]

(***************************************************************************)
(* The pipeline: MultiLayerValidator                                       *)
(***************************************************************************)

\* MultiLayerValidator.__init__: Layer 1 is the AI-backed validator only with
\* an LLM client (and use_adaptive / ADAPTIVE_VALIDATION on); Layer 2 exists
\* only with an LLM client.
Configs ==
    { [adaptive |-> TRUE,  hasLLM |-> TRUE],
      [adaptive |-> FALSE, hasLLM |-> TRUE],
      [adaptive |-> FALSE, hasLLM |-> FALSE] }

ZeroStats ==
    [total_validations |-> 0, layer1_rejections |-> 0, layer2_rejections |-> 0,
     layer3_rejections |-> 0, approved |-> 0]

EmptyResults ==
    [layer1_result |-> None, layer2_result |-> None, layer3_result |-> None,
     decision_path |-> <<>>]

EmptyCache == <<>>

CachePut(cache, key, value) ==
    [k \in DOMAIN cache \cup {key} |-> IF k = key THEN value ELSE cache[k]]

\* The similarities used when the whole pipeline runs (a subset of SimGrid).
PipelineSims == {-2004, 2996, 3000, 5996, 6000}
PipelineEmbedReplies ==
    { e \in EmbedReplies : e.kind = "raise" \/ e.sim \in PipelineSims }

\* The three early-exit tests of validate_keyword.
\* A mutant of the Layer 1 test: the early exit is taken on LOW confidence.
Layer1ExitOnLow(l1) == ~l1.valid /\ l1.confidence = "LOW"

Layer1Exit(l1) == ~l1.valid /\ l1.confidence = "HIGH"

\* A mutant of the Layer 2 test: the veto needs a HIGH-confidence verdict.
Layer2ExitNeedsHigh(l2) == l2.risk_level = "FABRICATION" /\ l2.confidence = "HIGH"

Layer2Exit(l2) == l2.risk_level = "FABRICATION"

Layer3Exit(l3, strict_mode) == strict_mode /\ ~l3.valid /\ l3.confidence = "HIGH"

\* A mutant of the early exit: the exit reports the vote of the layers seen.
EarlyReturnByVote(res, overall) ==
    [valid |-> (\E r \in {res.layer1_result, res.layer2_result,
                           res.layer3_result} : r # None /\ r.valid),
     overall_confidence |-> overall,
     layer1_result |-> res.layer1_result, layer2_result |-> res.layer2_result,
     layer3_result |-> res.layer3_result, decision_path |-> res.decision_path,
     early |-> TRUE]

\* The dict an early exit returns.
EarlyReturn(res, overall) ==
    [valid |-> FALSE, overall_confidence |-> overall,
     layer1_result |-> res.layer1_result, layer2_result |-> res.layer2_result,
     layer3_result |-> res.layer3_result, decision_path |-> res.decision_path,
     early |-> TRUE]

Vote(r) == IF r # None /\ r.valid THEN 1 ELSE 0
HighCount(r) == IF r # None /\ r.confidence = "HIGH" THEN 1 ELSE 0

valid_votes(res) ==
    Vote(res.layer1_result) + Vote(res.layer2_result) + Vote(res.layer3_result)

total_layers(hasLayer2) == 2 + (IF hasLayer2 THEN 1 ELSE 0)

\* A mutant of the lenient rule: a strict majority is required.
final_valid_strict_majority(votes, total, strict_mode) ==
    IF strict_mode THEN votes = total ELSE 2 * votes > total

\* final_valid: valid_votes == total_layers in strict mode, else
\* valid_votes >= total_layers / 2.
final_valid(votes, total, strict_mode) ==
    IF strict_mode THEN votes = total ELSE 2 * votes >= total

high_confidence_count(res) ==
    HighCount(res.layer1_result) + HighCount(res.layer2_result)
        + HighCount(res.layer3_result)

\* A mutant of the grade: one HIGH layer is enough for HIGH.
overall_confidence_one_is_high(count) ==
    IF count >= 1 THEN "HIGH" ELSE "LOW"

overall_confidence(count) ==
    IF count >= 2 THEN "HIGH" ELSE IF count >= 1 THEN "MEDIUM" ELSE "LOW"

\* The dict the final decision returns.
CombinedReturn(res, strict_mode, hasLayer2) ==
    [valid |-> final_valid(valid_votes(res), total_layers(hasLayer2), strict_mode),
     overall_confidence |-> overall_confidence(high_confidence_count(res)),
     layer1_result |-> res.layer1_result, layer2_result |-> res.layer2_result,
     layer3_result |-> res.layer3_result, decision_path |-> res.decision_path,
     early |-> FALSE]

Bump(st, field) == [st EXCEPT ![field] = @ + 1]

\* validate_keyword, entry: the statistics counter and the empty `results`.
StartValidate ==
    /\ vpc = "idle"
    /\ \E keyword \in Terms, context \in Contexts, strict_mode \in BOOLEAN :
          vin' = [keyword |-> keyword, context |-> context,
                  strict_mode |-> strict_mode]
    /\ stats' = Bump(stats, "total_validations")
    /\ results' = EmptyResults
    /\ vpc' = "layer1"
    /\ UNCHANGED <<cfg, model_loaded, vret, compatibility_cache, l3call, l1call, pvars, ovars>>

\* What follows the Layer 1 call, whichever validator produced l1.
AfterLayer1(l1) ==
    LET res == [results EXCEPT !.layer1_result = l1,
                               !.decision_path = Append(@, "Layer1")]
    IN  /\ results' = res
        /\ IF Layer1Exit(l1)
           THEN /\ stats' = Bump(stats, "layer1_rejections")
                /\ vret' = EarlyReturn(res, "HIGH")
                /\ vpc' = "done"
           ELSE /\ UNCHANGED <<stats, vret>>
                /\ vpc' = IF cfg.hasLLM THEN "layer2" ELSE "layer3"

\* Layer 1 is the static validator.
ConsultLayer1Static ==
    /\ vpc = "layer1"
    /\ ~cfg.adaptive
    /\ AfterLayer1(TechValidate(vin.keyword, vin.context))
    /\ UNCHANGED <<cfg, model_loaded, vin, compatibility_cache, l3call, l1call, pvars, ovars>>

\* Layer 1 is the AI-backed validator and the key is cached: no service call.
ConsultLayer1Cached ==
    /\ vpc = "layer1"
    /\ cfg.adaptive
    /\ CacheKey(vin.keyword, vin.context) \in DOMAIN compatibility_cache
    /\ AfterLayer1(compatibility_cache[CacheKey(vin.keyword, vin.context)])
    /\ UNCHANGED <<cfg, model_loaded, vin, compatibility_cache, l3call, l1call, pvars, ovars>>

\* Layer 1 is the AI-backed validator and the service is called; only a
\* parsed reply is stored in the cache.
ConsultLayer1Adaptive ==
    /\ vpc = "layer1"
    /\ cfg.adaptive
    /\ CacheKey(vin.keyword, vin.context) \notin DOMAIN compatibility_cache
    /\ \E reply \in L1Replies :
          /\ AfterLayer1(AdaptiveResult(reply))
          /\ compatibility_cache' =
                IF reply.kind = "ok"
                THEN CachePut(compatibility_cache,
                              CacheKey(vin.keyword, vin.context),
                              AdaptiveResult(reply))
                ELSE compatibility_cache
    /\ UNCHANGED <<cfg, model_loaded, vin, l3call, l1call, pvars, ovars>>

\* Layer 2 (only reached with an LLM client).
ConsultLayer2 ==
    /\ vpc = "layer2"
    /\ \E reply \in L2Replies :
          LET l2 == LLMResult(reply)
              res == [results EXCEPT !.layer2_result = l2,
                                     !.decision_path = Append(@, "Layer2")]
          IN  /\ results' = res
              /\ IF Layer2Exit(l2)
                 THEN /\ stats' = Bump(stats, "layer2_rejections")
                      /\ vret' = EarlyReturn(res, "HIGH")
                      /\ vpc' = "done"
                 ELSE /\ UNCHANGED <<stats, vret>>
                      /\ vpc' = "layer3"
    /\ UNCHANGED <<cfg, model_loaded, vin, compatibility_cache, l3call, l1call, pvars, ovars>>

\* Layer 3, with the default threshold.
ConsultLayer3 ==
    /\ vpc = "layer3"
    /\ \E emb \in PipelineEmbedReplies :
          LET l3 == validate_keyword_similarity(model_loaded, emb, DefaultThreshold)
              res == [results EXCEPT !.layer3_result = l3,
                                     !.decision_path = Append(@, "Layer3")]
          IN  /\ results' = res
              /\ IF Layer3Exit(l3, vin.strict_mode)
                 THEN /\ stats' = Bump(stats, "layer3_rejections")
                      /\ vret' = EarlyReturn(res, "MEDIUM")
                      /\ vpc' = "done"
                 ELSE /\ UNCHANGED <<stats, vret>>
                      /\ vpc' = "combine"
    /\ UNCHANGED <<cfg, model_loaded, vin, compatibility_cache, l3call, l1call, pvars, ovars>>

\* The final decision.
Combine ==
    /\ vpc = "combine"
    /\ vret' = CombinedReturn(results, vin.strict_mode, cfg.hasLLM)
    /\ stats' = IF vret'.valid THEN Bump(stats, "approved") ELSE stats
    /\ vpc' = "done"
    /\ UNCHANGED <<cfg, model_loaded, vin, results, compatibility_cache, l3call, l1call, pvars, ovars>>

\* The other subsystems at rest.
IdleP == pjd = <<>> /\ pkw = <<>> /\ pout = <<>>

NoTracker == [changes |-> <<>>, _change_counter |-> 0]

\* No second thread: the optimizer is used by one call at a time.
NoCalls == <<>>

IdleO ==
    /\ latex_content = <<>>
    /\ missing_keywords = <<>>
    /\ job_description = <<>>
    /\ opc = "idle"
    /\ items = <<>>
    /\ optimized_latex = <<>>
    /\ added_keywords = <<>>
    /\ rejected_keywords = <<>>
    /\ keywords_to_process = <<>>
    /\ changes_made = <<>>
    /\ oret = None
    /\ tracker = NoTracker
    /\ replayed = None
    /\ processed = <<>>
    /\ best_bullet_idx = -1
    /\ calls = NoCalls
    /\ extracted = <<>>

NoCall == [keyword |-> "", context |-> "", strict_mode |-> FALSE]
NoL3Call == [similarity |-> 0, threshold |-> 0, result |-> None, called |-> FALSE]
NoL1Call == [keyword |-> <<>>, context |-> <<>>, called |-> FALSE, result |-> None,
             tick |-> 0]

\* A cache as an earlier direct call of Layer 1 can have left it.
SeedCaches ==
    { EmptyCache }
    \cup { CachePut(EmptyCache, CacheKey("kubernetes", "did qa"), AdaptiveParsed(r)) :
             r \in { x \in L1Replies : x.kind = "ok" /\ x.confidence = "HIGH"
                                       /\ x.compatible # "absent" } }

InitV ==
    /\ cfg \in Configs
    /\ model_loaded \in BOOLEAN
    /\ vpc = "idle"
    /\ vin = NoCall
    /\ results = EmptyResults
    /\ vret = None
    /\ stats = ZeroStats
    /\ compatibility_cache \in IF cfg.adaptive THEN SeedCaches ELSE {EmptyCache}
    /\ l3call = NoL3Call
    /\ l1call = NoL1Call
    /\ IdleP
    /\ IdleO

NextV ==
    \/ StartValidate
    \/ ConsultLayer1Static
    \/ ConsultLayer1Cached
    \/ ConsultLayer1Adaptive
    \/ ConsultLayer2
    \/ ConsultLayer3
    \/ Combine

SpecV == InitV /\ [][NextV]_vars

(***************************************************************************)
(* Layer 3 called on its own, with any threshold up to 0.6                 *)
(***************************************************************************)

Thresholds == {0, 1000, 1502, 2000, 2996, 3000, 4500, 5996, 6000}

CallSimilarity ==
    /\ \E emb \in EmbedReplies, threshold \in Thresholds :
          l3call' = [similarity |-> compute_similarity(model_loaded, emb),
                     threshold |-> threshold,
                     result |-> validate_keyword_similarity(model_loaded, emb, threshold),
                     called |-> TRUE]
    /\ UNCHANGED <<vvars, l1call, pvars, ovars>>

InitC ==
    /\ cfg = [adaptive |-> FALSE, hasLLM |-> FALSE]
    /\ model_loaded \in BOOLEAN
    /\ vpc = "idle"
    /\ vin = NoCall
    /\ results = EmptyResults
    /\ vret = None
    /\ stats = ZeroStats
    /\ compatibility_cache = EmptyCache
    /\ l3call = NoL3Call
    /\ l1call = NoL1Call
    /\ IdleP
    /\ IdleO

NextC == CallSimilarity

SpecC == InitC /\ [][NextC]_vars

(***************************************************************************)
(* Properties of the validation layers and of the pipeline                 *)
(***************************************************************************)

L1 == results.layer1_result
L2 == results.layer2_result
L3 == results.layer3_result
RejectsHigh(r) == r # None /\ ~r.valid /\ r.confidence = "HIGH"
AcceptsWith(r, c) == r # None /\ r.valid /\ r.confidence = c

\* C3 (Unknown-domain non-blocking). The static Layer 1 accepts with LOW or
\* MEDIUM confidence whenever the term or the context maps to no ecosystem,
\* it rejects only with HIGH confidence and only when both map to ecosystems
\* no pair of which is compatible; the AI-backed Layer 1 answers a failed or
\* unparseable service reply with valid=True, confidence LOW.
C3_UnknownDomainNonBlocking ==
    L1 # None =>
      /\ L1.source = "static" =>
            /\ (L1.keyword_ecosystems = {} \/ L1.context_ecosystems = {})
                  => L1.valid /\ L1.confidence \in {"LOW", "MEDIUM"}
            /\ ~L1.valid =>
                  /\ L1.confidence = "HIGH"
                  /\ L1.keyword_ecosystems # {} /\ L1.context_ecosystems # {}
                  /\ \A ke \in L1.keyword_ecosystems, ce \in L1.context_ecosystems :
                        /\ ke # ce
                        /\ <<ke, ce>> \notin compatible_pairs
                        /\ <<ce, ke>> \notin compatible_pairs
      /\ L1.source \in {"raise", "badjson", "notdict"} =>
            L1.valid /\ L1.confidence = "LOW"

\* C3 witness: the static Layer 1 has judged an unknown term against a
\* context with known ecosystems.
C3_Witness ==
    /\ L1 # None
    /\ L1.source = "static"
    /\ L1.keyword_ecosystems = {}
    /\ L1.context_ecosystems # {}
    /\ L1.valid

\* The degraded situation of C4: every completion call made has raised and
\* the embedding capability gave no score.
Degraded ==
    /\ vpc = "done"
    /\ cfg.hasLLM
    /\ L1.source \in {"static", "raise"}
    /\ L2 # None => L2.source = "raise"
    /\ L3 # None => ~L3.available

\* C4 as stated (Permissive degrade): in the degraded situation the result is
\* valid=True with overall confidence LOW, and Layers B and C each contribute
\* a LOW-confidence accept.
C4_Original ==
    Degraded =>
      /\ vret.valid
      /\ vret.overall_confidence = "LOW"
      /\ L2 # None => AcceptsWith(L2, "LOW")
      /\ L3 # None => AcceptsWith(L3, "LOW")

\* C4 as amended: in the degraded situation Layer B contributes a
\* LOW-confidence accept and Layer C a MEDIUM-confidence accept with the
\* neutral score 0.5; the result is valid=True unless the static Layer A
\* itself rejected with HIGH confidence; and with the AI-backed Layer A the
\* result is valid=True with overall confidence LOW, in both modes.
C4_PermissiveDegrade ==
    Degraded =>
      /\ L2 # None => AcceptsWith(L2, "LOW")
      /\ L3 # None => AcceptsWith(L3, "MEDIUM") /\ L3.similarity_score = 500
      /\ vret.valid <=> ~RejectsHigh(L1)
      /\ L1.source = "raise" =>
            /\ vret.valid
            /\ vret.overall_confidence = "LOW"
            /\ L2 # None /\ L3 # None

\* C4 witness: a strict-mode call with the AI-backed Layer A in which all
\* three layers degraded.
C4_Witness ==
    /\ Degraded
    /\ vin.strict_mode
    /\ L1.source = "raise"
    /\ L2 # None /\ L2.source = "raise"
    /\ L3 # None /\ ~L3.available

\* The decision path is a prefix of Layer1, Layer2, Layer3 (Layer2 left out
\* without an LLM client), and a result is recorded exactly for the layers on it.
PathIsPrefix ==
    LET order == IF cfg.hasLLM THEN <<"Layer1", "Layer2", "Layer3">>
                 ELSE <<"Layer1", "Layer3">>
        path == results.decision_path
    IN  /\ Len(path) <= Len(order)
        /\ \A i \in 1..Len(path) : path[i] = order[i]
        /\ (L1 # None) <=> (\E i \in 1..Len(path) : path[i] = "Layer1")
        /\ (L2 # None) <=> (\E i \in 1..Len(path) : path[i] = "Layer2")
        /\ (L3 # None) <=> (\E i \in 1..Len(path) : path[i] = "Layer3")

\* C5 as stated (Short-circuit ordering): the path is a prefix of A, B, C and
\* a HIGH-confidence rejection by any consulted layer stops the evaluation
\* (no later layer is consulted) and makes the result valid=False.
C5_Original ==
    /\ PathIsPrefix
    /\ RejectsHigh(L1) => L2 = None /\ L3 = None
    /\ RejectsHigh(L2) => L3 = None
    /\ (vpc = "done" /\ (RejectsHigh(L1) \/ RejectsHigh(L2) \/ RejectsHigh(L3)))
          => ~vret.valid

\* C5 as amended: the path is a prefix of A, B, C; a HIGH-confidence
\* rejection by Layer A stops the evaluation and makes the result valid=False
\* in both modes; Layer B stops the evaluation (with valid=False) when it
\* reports FABRICATION risk, not on a HIGH-confidence rejection as such; a
\* HIGH-confidence rejection by Layer C makes the result valid=False in
\* strict mode only.
C5_ShortCircuitOrdering ==
    /\ PathIsPrefix
    /\ RejectsHigh(L1) => L2 = None /\ L3 = None /\ vpc = "done" /\ ~vret.valid
    /\ (L2 # None /\ L2.risk_level = "FABRICATION")
          => L3 = None /\ vpc = "done" /\ ~vret.valid
    /\ (L2 # None /\ L2.risk_level # "FABRICATION" /\ vpc = "done") => L3 # None
    /\ (vpc = "done" /\ vin.strict_mode /\ RejectsHigh(L3)) => ~vret.valid

\* C5 witness: Layer A rejected with HIGH confidence and the call returned
\* with Layer1 alone on the path.
C5_Witness ==
    /\ vpc = "done"
    /\ RejectsHigh(L1)
    /\ results.decision_path = <<"Layer1">>
    /\ cfg.hasLLM

\* C6 (Fabrication veto). Whenever Layer B was consulted and reported
\* FABRICATION, the call has returned valid=False without consulting Layer C,
\* whatever Layer A and Layer B's own valid flag say and in both modes.
C6_FabricationVeto ==
    (L2 # None /\ L2.risk_level = "FABRICATION") =>
        /\ vpc = "done"
        /\ ~vret.valid
        /\ L3 = None
        /\ vret.layer3_result = None

\* C6 witness: Layer A accepted with HIGH confidence, Layer B called the
\* insertion believable but reported FABRICATION, in lenient mode.
C6_Witness ==
    /\ vpc = "done"
    /\ ~vin.strict_mode
    /\ AcceptsWith(L1, "HIGH")
    /\ L2 # None /\ L2.valid /\ L2.risk_level = "FABRICATION"
         /\ L2.confidence # "HIGH"

Evaluated == Len(results.decision_path)
Accepts == Cardinality({ i \in 1..3 :
              LET r == <<L1, L2, L3>>[i] IN r # None /\ r.valid })

HighLayers == Cardinality({ i \in 1..3 :
                 LET r == <<L1, L2, L3>>[i] IN r # None /\ r.confidence = "HIGH" })
Grade(n) == IF n >= 2 THEN "HIGH" ELSE IF n = 1 THEN "MEDIUM" ELSE "LOW"

\* C8 as stated (Overall confidence grade): every returned result, early
\* exits included, grades HIGH iff at least 2 evaluated layers reported HIGH,
\* MEDIUM iff exactly 1, LOW iff none.
C8_Original ==
    vpc = "done" => vret.overall_confidence = Grade(HighLayers)

\* C8 as amended: the grade follows the count of HIGH layers for every result
\* of the final decision; the early-exit rejections of Layer A and Layer B
\* report HIGH and the strict-mode early exit of Layer C reports MEDIUM,
\* whatever the count.
C8_OverallConfidence ==
    vpc = "done" =>
        /\ ~vret.early => vret.overall_confidence = Grade(HighLayers)
        /\ (vret.early /\ L3 = None) => vret.overall_confidence = "HIGH"
        /\ (vret.early /\ L3 # None) => vret.overall_confidence = "MEDIUM"

\* C8 witness: a final decision over three layers of which exactly two
\* reported HIGH.
C8_Witness ==
    /\ vpc = "done" /\ ~vret.early
    /\ cfg.hasLLM
    /\ HighLayers = 2
    /\ vret.overall_confidence = "HIGH"

\* C9 as stated (Layer C thresholds): for similarity s and threshold t <= 0.6
\* the verdict is (True, HIGH) iff s >= 0.6, (True, MEDIUM) iff t <= s < 0.6,
\* (False, HIGH) iff s < t, and the reported similarity_score lies in [0, 1].
C9_Original ==
    l3call.called =>
        LET sim == l3call.similarity
            t == l3call.threshold
            r == l3call.result
        IN  /\ (r.valid /\ r.confidence = "HIGH") <=> sim >= HighSim
            /\ (r.valid /\ r.confidence = "MEDIUM") <=> (t <= sim /\ sim < HighSim)
            /\ (~r.valid /\ r.confidence = "HIGH") <=> sim < t
            /\ 0 <= r.similarity_score /\ r.similarity_score <= 1000

(***************************************************************************)
(* The keyword prioritizer: KeywordPrioritizer                             *)
(*                                                                         *)
(* A job description is a sequence of tokens: a heading line, a mention of *)
(* a term (plain, upper-case or emphasised), or filler.  Weights and     *)
(* bonuses are in tenths, scores in hundredths.                            *)
(***************************************************************************)

MaxBlocks == 3      \* a job description is made of at most this many blocks
MaxKw == 2          \* length of the candidate list
MaxCalls == 2       \* calls of prioritize_keywords on the same inputs
IntroLen == 2       \* the intro window job_description[:200], in tokens

PTerms == {"aws", "sql"}
Upper(k) == CASE k = "aws" -> "AWS" [] k = "sql" -> "SQL"
Bold(k) == CASE k = "aws" -> "**aws**" [] k = "sql" -> "**sql**"
Filler == "we"

\* section_patterns: the heading tokens each of the five patterns matches.
section_patterns ==
    << {"requirements"}, {"responsibilities"}, {"preferred"},
       {"required skills"}, {"what you'll bring"} >>

\* The blocks job descriptions are built from.
Blocks ==
    { <<"requirements">>, <<"responsibilities">>, <<"preferred">>,
      <<"aws">>, <<"aws", "aws", "aws", "aws", "aws">>, <<"AWS">>,
      <<"sql">>, <<"**sql**">>, <<Filler>> }

RECURSIVE Flatten(_)
Flatten(bs) == IF bs = <<>> THEN <<>> ELSE Head(bs) \o Flatten(Tail(bs))

SeqsUpTo(S, n) == UNION { [1..k -> S] : k \in 0..n }

JobDescriptions == { Flatten(bs) : bs \in SeqsUpTo(Blocks, MaxBlocks) }

\* Python's s[a:b] for 0 <= a and 0 <= b <= len(s).
Slice(s, a, b) == IF a >= b THEN <<>> ELSE SubSeq(s, a + 1, b)

Min(a, b) == IF a <= b THEN a ELSE b

\* re.findall(r'\b' + keyword + r'\b', text, re.IGNORECASE) hits this token;
\* the same tokens contain keyword.lower() once lower-cased.
Mentions(tok, keyword) == tok \in {keyword, Upper(keyword), Bold(keyword)}

ContainsTerm(text, keyword) == \E i \in 1..Len(text) : Mentions(text[i], keyword)

\* KeywordPrioritizer._count_frequency
_count_frequency(keyword, text) ==
    Cardinality({ i \in 1..Len(text) : Mentions(text[i], keyword) })

RECURSIVE IndicesOf(_, _, _)
IndicesOf(jd, S, i) ==
    IF i > Len(jd) THEN <<>>
    ELSE (IF jd[i] \in S THEN <<i>> ELSE <<>>) \o IndicesOf(jd, S, i + 1)

\* The order in which _identify_sections visits the heading matches: pattern
\* by pattern, and within one pattern in document order.
RECURSIVE MatchOrder(_, _)
MatchOrder(jd, p) ==
    IF p > Len(section_patterns) THEN <<>>
    ELSE IndicesOf(jd, section_patterns[p], 1) \o MatchOrder(jd, p + 1)

\* sections[key] = value on an insertion-ordered dict (a sequence of pairs).
DictSet(d, key, value) ==
    IF \E i \in 1..Len(d) : d[i][1] = key
    THEN [i \in 1..Len(d) |-> IF d[i][1] = key THEN <<key, value>> ELSE d[i]]
    ELSE Append(d, <<key, value>>)

\* The loop body of _identify_sections over the matches ms (token indices).
RECURSIVE ScanSections(_, _, _)
ScanSections(jd, ms, st) ==
    IF ms = <<>> THEN st
    ELSE LET i == Head(ms)
             section_text == Slice(jd, st.last_end, i - 1)
             secs == IF section_text # <<>>
                     THEN DictSet(st.sections, st.current_section, section_text)
                     ELSE st.sections
         IN  ScanSections(jd, Tail(ms),
                 [sections |-> secs, current_section |-> jd[i], last_end |-> i])

\* KeywordPrioritizer._identify_sections
_identify_sections(jd) ==
    LET st == ScanSections(jd, MatchOrder(jd, 1),
                  [sections |-> <<>>, current_section |-> "Introduction",
                   last_end |-> 0])
        withLast == IF st.last_end < Len(jd)
                    THEN DictSet(st.sections, st.current_section,
                                 Slice(jd, st.last_end, Len(jd)))
                    ELSE st.sections
    IN  IF withLast = <<>> THEN << <<"Requirements", jd>> >> ELSE withLast

\* SECTION_WEIGHTS looked up by the first key contained in the lower-cased
\* section name (tenths); no key is contained in "introduction".
NameWeight(section_name) ==
    CASE section_name \in {"requirements", "Requirements", "required skills"} -> 30
      [] section_name = "responsibilities" -> 20
      [] section_name = "preferred" -> 15
      [] OTHER -> 10

RECURSIVE FirstSectionWeight(_, _)
FirstSectionWeight(sections, keyword) ==
    IF sections = <<>> THEN 10
    ELSE IF ContainsTerm(Head(sections)[2], keyword)
         THEN NameWeight(Head(sections)[1])
         ELSE FirstSectionWeight(Tail(sections), keyword)

\* KeywordPrioritizer._get_section_weight
_get_section_weight(keyword, jd) ==
    FirstSectionWeight(_identify_sections(jd), keyword)

\* KeywordPrioritizer._get_context_bonus (tenths)
_get_context_bonus(keyword, jd) ==
    LET intro == Slice(jd, 0, Min(IntroLen, Len(jd)))
        b1 == IF ContainsTerm(intro, keyword) THEN 3 ELSE 0
        b2 == IF \E i \in 1..Len(jd) : jd[i] = Upper(keyword) THEN 2 ELSE 0
        b3 == IF \E i \in 1..Len(jd) : jd[i] = Bold(keyword) THEN 2 ELSE 0
    IN  Min(b1 + b2 + b3, 10)

\* KeywordPrioritizer._calculate_priority_score (hundredths)
_calculate_priority_score(keyword, jd) ==
    (_count_frequency(keyword, jd) * _get_section_weight(keyword, jd))
        * (10 + _get_context_bonus(keyword, jd))

\* A mutant of the sort: ascending order (reverse=True forgotten).
InsertByScoreAscending(sorted, x) ==
    LET before == { j \in 1..Len(sorted) : sorted[j][2] <= x[2] }
        n == Cardinality(before)
    IN  SubSeq(sorted, 1, n) \o <<x>> \o SubSeq(sorted, n + 1, Len(sorted))

\* One step of the stable descending sort: x goes behind every element whose
\* score is at least its own (sorted is in non-increasing order).
InsertByScore(sorted, x) ==
    LET before == { j \in 1..Len(sorted) : sorted[j][2] >= x[2] }
        n == Cardinality(before)
    IN  SubSeq(sorted, 1, n) \o <<x>> \o SubSeq(sorted, n + 1, Len(sorted))

\* scored_keywords.sort(key=lambda x: x[1], reverse=True)
RECURSIVE SortByScore(_)
SortByScore(scored) ==
    IF scored = <<>> THEN <<>>
    ELSE InsertByScore(SortByScore(SubSeq(scored, 1, Len(scored) - 1)),
                       scored[Len(scored)])

\* KeywordPrioritizer.prioritize_keywords
prioritize_keywords(kws, jd) ==
    SortByScore([i \in 1..Len(kws) |->
                    <<kws[i], _calculate_priority_score(kws[i], jd)>>])

Prioritize ==
    /\ Len(pout) < MaxCalls
    /\ pout' = Append(pout, prioritize_keywords(pkw, pjd))
    /\ UNCHANGED <<pjd, pkw, vvars, l3call, l1call, ovars>>

IdleV ==
    /\ cfg = [adaptive |-> FALSE, hasLLM |-> FALSE]
    /\ model_loaded = FALSE
    /\ vpc = "idle"
    /\ vin = NoCall
    /\ results = EmptyResults
    /\ vret = None
    /\ stats = ZeroStats
    /\ compatibility_cache = EmptyCache

InitP ==
    /\ pjd \in JobDescriptions
    /\ pkw \in SeqsUpTo(PTerms, MaxKw)
    /\ pout = <<>>
    /\ IdleV
    /\ l3call = NoL3Call
    /\ l1call = NoL1Call
    /\ IdleO

NextP == Prioritize

SpecP == InitP /\ [][NextP]_vars

\* C10 (Prioritizer ranking). Every list returned by prioritize_keywords has
\* one entry per candidate term, is in non-increasing order of score, carries
\* score = frequency * section_weight * (1 + context_bonus) with the bonus in
\* [0, 1]; of two candidates with equal section weight and bonus, one
\* occurring 5 times precedes one occurring once; an empty candidate list
\* gives an empty list; and repeated calls on the same inputs return the
\* same list.  freq, weight and bonus are the three factors of every term,
\* computed once per state.
C10_PrioritizerRanking ==
    \A freq \in { [k \in PTerms |-> _count_frequency(k, pjd)] },
       weight \in { [k \in PTerms |-> _get_section_weight(k, pjd)] },
       bonus \in { [k \in PTerms |-> _get_context_bonus(k, pjd)] } :
        \A c \in 1..Len(pout) :
            LET out == pout[c]
            IN  /\ Len(out) = Len(pkw)
                /\ \A k \in PTerms :
                      Cardinality({ i \in 1..Len(out) : out[i][1] = k })
                        = Cardinality({ i \in 1..Len(pkw) : pkw[i] = k })
                /\ \A i \in 1..Len(out) :
                      /\ out[i][1] \in PTerms
                      /\ bonus[out[i][1]] \in 0..10
                      /\ out[i][2] = freq[out[i][1]] * weight[out[i][1]]
                                        * (10 + bonus[out[i][1]])
                /\ \A i, j \in 1..Len(out) : i < j => out[i][2] >= out[j][2]
                /\ \A i, j \in 1..Len(out) :
                      ( /\ weight[out[i][1]] = weight[out[j][1]]
                        /\ bonus[out[i][1]] = bonus[out[j][1]]
                        /\ freq[out[i][1]] = 5 /\ freq[out[j][1]] = 1 ) => i < j
                /\ pkw = <<>> => out = <<>>
                /\ out = pout[1]

\* C10 witness: the candidate list names sql before aws, aws occurs 5 times
\* and sql once with equal section weight and bonus, and two calls have
\* returned aws first.
C10_Witness ==
    /\ Len(pout) = 2
    /\ pkw = <<"sql", "aws">>
    /\ _count_frequency("aws", pjd) = 5
    /\ _count_frequency("sql", pjd) = 1
    /\ _get_section_weight("aws", pjd) = _get_section_weight("sql", pjd)
    /\ _get_context_bonus("aws", pjd) = _get_context_bonus("sql", pjd)
    /\ pout[2][1][1] = "aws"

\* The heading that most closely precedes position i of the document, if any.
Headings == UNION { section_patterns[p] : p \in 1..Len(section_patterns) }

FirstOccurrence(keyword, jd) ==
    CHOOSE i \in 1..Len(jd) :
        /\ Mentions(jd[i], keyword)
        /\ \A j \in 1..(i - 1) : ~Mentions(jd[j], keyword)

NearestHeadingWeight(keyword, jd) ==
    LET i == FirstOccurrence(keyword, jd)
        hs == { h \in 1..(i - 1) : jd[h] \in Headings }
    IN  IF hs = {} THEN 10
        ELSE NameWeight(jd[CHOOSE h \in hs : \A g \in hs : g <= h])

\* C11 (Section weight), as stated. The score of every ranked term that
\* occurs in the document is computed with the weight of the heading that most
\* closely precedes the term's first occurrence, and with the neutral weight
\* 1.0 when no heading precedes it, whatever the order of the heading kinds.
C11_Original ==
    \A c \in 1..Len(pout) :
        \A i \in 1..Len(pout[c]) :
            \A k \in { pout[c][i][1] } :
                ContainsTerm(pjd, k) =>
                    /\ _get_section_weight(k, pjd) = NearestHeadingWeight(k, pjd)
                    /\ pout[c][i][2] = _count_frequency(k, pjd)
                                          * NearestHeadingWeight(k, pjd)
                                          * (10 + _get_context_bonus(k, pjd))

(***************************************************************************)
(* The LaTeX editor: LaTeXOptimizer, and the ledger replay of              *)
(* ChangeTracker.                                                          *)
(*                                                                         *)
(* Text is a sequence of one-character strings; offsets are 0-based as in  *)
(* the code (At(s, i) is s[i]).                                            *)
(***************************************************************************)

UpperCase == <<"A", "B", "C", "D", "E", "F", "G", "H", "I", "J", "K", "L", "M",
               "N", "O", "P", "Q", "R", "S", "T", "U", "V", "W", "X", "Y", "Z">>
LowerCase == <<"a", "b", "c", "d", "e", "f", "g", "h", "i", "j", "k", "l", "m",
               "n", "o", "p", "q", "r", "s", "t", "u", "v", "w", "x", "y", "z">>

UpperSet == { UpperCase[k] : k \in 1..Len(UpperCase) }
LetterSet == UpperSet \cup { LowerCase[k] : k \in 1..Len(LowerCase) }
LowerOf == [c \in UpperSet |-> LowerCase[CHOOSE k \in 1..Len(UpperCase) : c = UpperCase[k]]]

IsLetter(c) == c \in LetterSet
IsSpace(c) == c \in {" ", "\n", "\t"}

LowerChar(c) == IF c \in UpperSet THEN LowerOf[c] ELSE c

\* str.lower()
lower(s) == SubSeq([k \in 1..Len(s) |-> LowerChar(s[k])], 1, Len(s))

At(s, i) == s[i + 1]

MinOf(S) == CHOOSE x \in S : \A y \in S : x <= y

\* s.startswith(w, i)
StartsWithAt(s, i, w) ==
    /\ i + Len(w) <= Len(s)
    /\ \A k \in 1..Len(w) : s[i + k] = w[k]

\* s.find(w, from): the first offset >= from where w occurs, -1 when none.
Find(s, w, from) ==
    LET hits == { i \in from..(Len(s) - Len(w)) : StartsWithAt(s, i, w) }
    IN  IF hits = {} THEN -1 ELSE MinOf(hits)

\* w in s
Contains(s, w) == Find(s, w, 0) # -1

\* s.replace(old, new, 1); an empty old matches at offset 0.
Replace1(s, old, new) ==
    LET i == Find(s, old, 0)
    IN  IF i = -1 THEN s
        ELSE Slice(s, 0, i) \o new \o Slice(s, i + Len(old), Len(s))

RECURSIVE lstrip(_)
lstrip(s) == IF s # <<>> /\ IsSpace(Head(s)) THEN lstrip(Tail(s)) ELSE s

RECURSIVE rstrip(_)
rstrip(s) ==
    IF s # <<>> /\ IsSpace(s[Len(s)]) THEN rstrip(SubSeq(s, 1, Len(s) - 1)) ELSE s

\* str.strip()
strip(s) == lstrip(rstrip(s))

\* The offset after the longest run of whitespace that starts at offset i.
RECURSIVE SkipSpace(_, _)
SkipSpace(s, i) ==
    IF i < Len(s) /\ IsSpace(At(s, i)) THEN SkipSpace(s, i + 1) ELSE i

\* The optional (?:resume|cv|custom) of custom_item_pattern.
ItemPrefixes ==
    { <<"r", "e", "s", "u", "m", "e">>,
      <<"c", "v">>,
      <<"c", "u", "s", "t", "o", "m">>,
      <<>> }

\* custom_item_pattern matched at offset p exactly: the offset after its
\* opening brace, or -1 when the pattern does not match there.
CustomItemEnd(s, p) ==
    LET ends ==
          { SkipSpace(s, p + 5 + Len(pre)) + 1 : pre \in
              { x \in ItemPrefixes :
                  /\ StartsWithAt(s, p, <<"\\">> \o x)
                  /\ p + 1 + Len(x) < Len(s)
                  /\ At(s, p + 1 + Len(x)) \in {"i", "I"}
                  /\ StartsWithAt(s, p + 2 + Len(x), <<"t", "e", "m">>)
                  /\ LET q == SkipSpace(s, p + 5 + Len(x))
                     IN  q < Len(s) /\ At(s, q) = "{" } }
    IN  IF ends = {} THEN -1 ELSE MinOf(ends)

\* re.search(custom_item_pattern, latex_content[pos:]): the leftmost match at
\* or after pos, as absolute offsets, or None.
CustomItemSearch(s, pos) ==
    LET starts == { p \in pos..(Len(s) - 1) : CustomItemEnd(s, p) # -1 }
    IN  IF starts = {} THEN None
        ELSE [start |-> MinOf(starts), end |-> CustomItemEnd(s, MinOf(starts))]

\* A mutant of the brace-matching loop: opening braces are not counted, so
\* the scan stops at the first unescaped closing brace.
RECURSIVE ScanBracesNoNesting(_, _, _)
ScanBracesNoNesting(s, i, brace_count) ==
    IF i < Len(s) /\ brace_count > 0
    THEN LET unescaped == (i = 0 \/ At(s, i - 1) # "\\")
         IN  ScanBracesNoNesting(s, i + 1,
                 IF At(s, i) = "}" /\ unescaped THEN brace_count - 1
                 ELSE brace_count)
    ELSE [i |-> i, brace_count |-> brace_count]

\* The brace-matching loop of _extract_items, started behind the opening
\* brace with brace_count = 1.
RECURSIVE ScanBraces(_, _, _)
ScanBraces(s, i, brace_count) ==
    IF i < Len(s) /\ brace_count > 0
    THEN LET unescaped == (i = 0 \/ At(s, i - 1) # "\\")
         IN  ScanBraces(s, i + 1,
                 IF At(s, i) = "{" /\ unescaped THEN brace_count + 1
                 ELSE IF At(s, i) = "}" /\ unescaped THEN brace_count - 1
                 ELSE brace_count)
    ELSE [i |-> i, brace_count |-> brace_count]

\* A mutant of PATTERN 1: an unbalanced command ends the scan of the document.
RECURSIVE ExtractCustomItemsAborting(_, _)
ExtractCustomItemsAborting(s, pos) ==
    LET match == CustomItemSearch(s, pos)
    IN  IF match = None THEN <<>>
        ELSE LET brace_start == match.end - 1
                 sc == ScanBraces(s, brace_start + 1, 1)
             IN  IF sc.brace_count = 0
                 THEN << [text |-> Slice(s, match.start, sc.i),
                          start_pos |-> match.start, end_pos |-> sc.i] >>
                      \o ExtractCustomItemsAborting(s, sc.i)
                 ELSE <<>>

\* PATTERN 1 of _extract_items, from scan position pos on.
RECURSIVE ExtractCustomItems(_, _)
ExtractCustomItems(s, pos) ==
    LET match == CustomItemSearch(s, pos)
    IN  IF match = None THEN <<>>
        ELSE LET brace_start == match.end - 1
                 sc == ScanBraces(s, brace_start + 1, 1)
             IN  IF sc.brace_count = 0
                 THEN << [text |-> Slice(s, match.start, sc.i),
                          start_pos |-> match.start, end_pos |-> sc.i] >>
                      \o ExtractCustomItems(s, sc.i)
                 ELSE ExtractCustomItems(s, brace_start + 1)

ItemLit == <<"\\", "i", "t", "e", "m">>
EndLit == <<"\\", "e", "n", "d">>

\* The lookahead (?!\s*\\item|\s*\\end|\s*$) of standard_item_pattern at r.
ContinuationBlocked(s, r) ==
    LET q == SkipSpace(s, r)
    IN  q = Len(s) \/ StartsWithAt(s, q, ItemLit) \/ StartsWithAt(s, q, EndLit)

\* The offset of the next newline at or after i, Len(s) when there is none.
RECURSIVE LineEnd(_, _)
LineEnd(s, i) == IF i < Len(s) /\ At(s, i) # "\n" THEN LineEnd(s, i + 1) ELSE i

\* (?:\n(?!...)[^\n]+)* of standard_item_pattern from offset r on.
RECURSIVE ContinuationEnd(_, _)
ContinuationEnd(s, r) ==
    IF /\ r < Len(s) /\ At(s, r) = "\n"
       /\ ~ContinuationBlocked(s, r + 1)
       /\ r + 1 < Len(s) /\ At(s, r + 1) # "\n"
    THEN ContinuationEnd(s, LineEnd(s, r + 1))
    ELSE r

\* standard_item_pattern matched at offset p exactly: [body, end] (body is
\* where group 1 starts) or None.  \s+ is greedy and gives characters back
\* only when the text ends in whitespace.
StandardItemAt(s, p) ==
    IF ~StartsWithAt(s, p, ItemLit) THEN None
    ELSE LET w == SkipSpace(s, p + 5)
             bodies == { b \in (p + 6)..w : b < Len(s) /\ At(s, b) # "\n" }
         IN  IF bodies = {} THEN None
             ELSE LET b == CHOOSE x \in bodies : \A y \in bodies : y <= x
                  IN  [body |-> b, end |-> ContinuationEnd(s, LineEnd(s, b))]

\* PATTERN 2 of _extract_items: re.finditer(standard_item_pattern, ...).
RECURSIVE ExtractStandardItems(_, _)
ExtractStandardItems(s, pos) ==
    LET starts == { p \in pos..(Len(s) - 1) : StandardItemAt(s, p) # None }
    IN  IF starts = {} THEN <<>>
        ELSE LET p == MinOf(starts)
                 m == StandardItemAt(s, p)
             IN  << [text |-> strip(Slice(s, m.body, m.end)),
                     start_pos |-> p, end_pos |-> m.end] >>
                 \o ExtractStandardItems(s, m.end)

\* LaTeXOptimizer._extract_items
_extract_items(s) ==
    LET custom == ExtractCustomItems(s, 0)
    IN  IF custom # <<>> THEN custom ELSE ExtractStandardItems(s, 0)

(***************************************************************************)
(* Direct calls of _extract_items on one document.                         *)
(***************************************************************************)

MaxPieces == 4          \* a document is made of at most this many pieces
MaxExtractCalls == 2    \* calls of _extract_items on the same document

\* The pieces documents are built from: two custom item commands (one with
\* a prefix, a capital I and a space before the brace), bare and escaped
\* braces, and a line of the standard grammar.
Pieces ==
    { ItemLit \o <<"{">>,
      <<"\\", "c", "v", "I", "t", "e", "m", " ", "{">>,
      <<"{">>, <<"}">>, <<"\\", "}">>, <<"\\", "{">>,
      ItemLit \o <<" ", "a", "\n">> }

ExtractDocuments == { Flatten(ps) : ps \in SeqsUpTo(Pieces, MaxPieces) }

\* A mutant of the call: a destructive extraction, which cuts the returned
\* spans out of the document it was given.
ExtractItemsConsuming ==
    /\ Len(extracted) < MaxExtractCalls
    /\ LET r == _extract_items(latex_content)
       IN  /\ extracted' = Append(extracted, r)
           /\ latex_content' = IF r = <<>> THEN latex_content
                               ELSE Slice(latex_content, 0, r[1].start_pos)
                                    \o Slice(latex_content, r[Len(r)].end_pos,
                                             Len(latex_content))
    /\ UNCHANGED <<missing_keywords, job_description, opc, items,
                   optimized_latex, added_keywords, rejected_keywords,
                   keywords_to_process, changes_made, oret, tracker, replayed, processed, best_bullet_idx, calls,
                   vvars, l3call, l1call, pvars>>

\* items = self._extract_items(latex_content), called directly: the method
\* builds a new list and assigns no attribute of the optimizer.
ExtractItems ==
    /\ Len(extracted) < MaxExtractCalls
    /\ extracted' = Append(extracted, _extract_items(latex_content))
    /\ UNCHANGED <<latex_content, missing_keywords, job_description, opc, items,
                   optimized_latex, added_keywords, rejected_keywords,
                   keywords_to_process, changes_made, oret, tracker, replayed, processed, best_bullet_idx, calls,
                   vvars, l3call, l1call, pvars>>

InitE ==
    /\ latex_content \in ExtractDocuments
    /\ missing_keywords = <<>>
    /\ job_description = <<>>
    /\ opc = "idle"
    /\ items = <<>>
    /\ optimized_latex = <<>>
    /\ added_keywords = <<>>
    /\ rejected_keywords = <<>>
    /\ keywords_to_process = <<>>
    /\ changes_made = <<>>
    /\ oret = None
    /\ tracker = NoTracker
    /\ replayed = None
    /\ processed = <<>>
    /\ best_bullet_idx = -1
    /\ calls = NoCalls
    /\ extracted = <<>>
    /\ IdleV
    /\ l3call = NoL3Call
    /\ l1call = NoL1Call
    /\ IdleP

NextE == ExtractItems

SpecE == InitE /\ [][NextE]_vars

UnescapedBrace(s, i, b) == At(s, i) = b /\ (i = 0 \/ At(s, i - 1) # "\\")

\* The nesting depth behind offset e - 1, the brace at offset open being the
\* one that opened depth 1.
DepthAt(s, open, e) ==
    1 + Cardinality({ i \in (open + 1)..(e - 1) : UnescapedBrace(s, i, "{") })
      - Cardinality({ i \in (open + 1)..(e - 1) : UnescapedBrace(s, i, "}") })

\* The offsets behind the closing brace that matches the brace at open: the
\* depth is 0 there and positive everywhere before (at most one such offset).
MatchingEnds(s, open) ==
    { e \in (open + 2)..Len(s) :
        /\ DepthAt(s, open, e) = 0
        /\ \A d \in (open + 1)..(e - 1) : DepthAt(s, open, d) > 0 }

\* The offsets of the custom item commands of s whose argument is balanced.
BalancedCommands(s) ==
    { p \in 0..(Len(s) - 1) :
        CustomItemEnd(s, p) # -1 /\ MatchingEnds(s, CustomItemEnd(s, p) - 1) # {} }

RECURSIVE NextClose(_, _)
NextClose(s, i) == IF i < Len(s) /\ At(s, i) # "}" THEN NextClose(s, i + 1) ELSE i

\* re.sub(cmd + r'([^}]+)\}', r'\1', s) from offset i on, cmd being the
\* command with its opening brace.
RECURSIVE UnwrapCommand(_, _, _)
UnwrapCommand(s, i, cmd) ==
    IF i >= Len(s) THEN <<>>
    ELSE LET a == i + Len(cmd)
             e == NextClose(s, a)
         IN  IF StartsWithAt(s, i, cmd) /\ e > a /\ e < Len(s)
             THEN Slice(s, a, e) \o UnwrapCommand(s, e + 1, cmd)
             ELSE <<At(s, i)>> \o UnwrapCommand(s, i + 1, cmd)

HrefLit == <<"\\", "h", "r", "e", "f", "{">>

\* re.sub(r'\\href\{[^}]+\}\{([^}]+)\}', r'\1', s) from offset i on.
RECURSIVE UnwrapHref(_, _)
UnwrapHref(s, i) ==
    IF i >= Len(s) THEN <<>>
    ELSE LET a == i + Len(HrefLit)
             e == NextClose(s, a)
             e2 == NextClose(s, e + 2)
         IN  IF /\ StartsWithAt(s, i, HrefLit) /\ e > a
                /\ StartsWithAt(s, e, <<"}", "{">>)
                /\ e2 > e + 2 /\ e2 < Len(s)
             THEN Slice(s, e + 2, e2) \o UnwrapHref(s, e2 + 1)
             ELSE <<At(s, i)>> \o UnwrapHref(s, i + 1)

TextbfLit == <<"\\", "t", "e", "x", "t", "b", "f", "{">>
TextitLit == <<"\\", "t", "e", "x", "t", "i", "t", "{">>
EmphLit == <<"\\", "e", "m", "p", "h", "{">>

\* LaTeXOptimizer._clean_latex_commands
_clean_latex_commands(text) ==
    LET t1 == UnwrapCommand(text, 0, TextbfLit)
        t2 == UnwrapCommand(t1, 0, TextitLit)
        t3 == UnwrapCommand(t2, 0, EmphLit)
        t4 == UnwrapHref(t3, 0)
    IN  strip(t4)

\* A mutant of the manual insertion: the length test is dropped.
_manual_insert_keyword_unbounded(text, keyword, max_length) ==
    IF text # <<>> /\ text[Len(text)] = "."
    THEN SubSeq(text, 1, Len(text) - 1) \o <<" ">> \o keyword \o <<".">>
    ELSE text \o <<" ">> \o keyword

\* LaTeXOptimizer._manual_insert_keyword (len(test) <= max_length * 1.15 in
\* integers; exact for the lengths below 100 that occur here).
_manual_insert_keyword(text, keyword, max_length) ==
    LET test == IF text # <<>> /\ text[Len(text)] = "."
                THEN SubSeq(text, 1, Len(text) - 1) \o <<" ">> \o keyword \o <<".">>
                ELSE text \o <<" ">> \o keyword
    IN  IF 100 * Len(test) <= 115 * max_length THEN test ELSE text

\* The offset of the last closing brace of s, -1 when there is none.
LastClose(s) ==
    LET cs == { i \in 0..(Len(s) - 1) : At(s, i) = "}" }
    IN  IF cs = {} THEN -1 ELSE CHOOSE x \in cs : \A y \in cs : y <= x

\* The offset after the longest run of letters that starts at offset i.
RECURSIVE SkipLetters(_, _)
SkipLetters(s, i) ==
    IF i < Len(s) /\ IsLetter(At(s, i)) THEN SkipLetters(s, i + 1) ELSE i

\* The wrapper split at the head of _enhance_bullet_latex_style:
\* re.match(r'(\\[a-zA-Z]+\s*\{)(.+)(\})', original_bullet, re.DOTALL).
SplitWrapper(original_bullet) ==
    LET n == SkipLetters(original_bullet, 1)
        q == SkipSpace(original_bullet, n)
        last == LastClose(original_bullet)
    IN  IF /\ StartsWithAt(original_bullet, 0, <<"\\">>)
           /\ n > 1
           /\ q < Len(original_bullet) /\ At(original_bullet, q) = "{"
           /\ last > q + 1
        THEN [wrapper_start |-> Slice(original_bullet, 0, q + 1),
              inner_text |-> Slice(original_bullet, q + 1, last),
              wrapper_end |-> <<"}">>]
        ELSE [wrapper_start |-> <<>>, inner_text |-> original_bullet,
              wrapper_end |-> <<>>]

Rewrap(w, enhanced) ==
    IF w.wrapper_start # <<>> /\ w.wrapper_end # <<>>
    THEN w.wrapper_start \o enhanced \o w.wrapper_end
    ELSE enhanced

\* What self.ai.optimize_text can do on one call: raise, or answer with the
\* text extended by the keyword, with the text's head overwritten by the
\* keyword set in bold, or with the text unchanged.
AIReplies(inner_text, keyword) ==
    { [kind |-> "raise", text |-> <<>>] }
    \cup [kind : {"ok"},
          text : { inner_text \o <<" ">> \o keyword,
                   TextbfLit \o keyword \o <<"}">>
                       \o Slice(inner_text, Len(keyword), Len(inner_text)),
                   inner_text }]

\* The cleaning of one response inside the strategy loop (no reply of
\* AIReplies opens with a code fence, so that branch is left out).
CleanResponse(response) ==
    LET e2 == strip(response)
    IN  IF Len(e2) >= 1 /\ e2[1] = "\"" /\ e2[Len(e2)] = "\""
        THEN Slice(e2, 1, Len(e2) - 1)
        ELSE e2

\* The strategy loop of _enhance_bullet_latex_style from strategy i on, for
\* the replies the rewrite service gives to the three prompts.
RECURSIVE TryStrategies(_, _, _, _, _)
TryStrategies(w, keyword, char_count, replies, i) ==
    IF i > 3
    THEN Rewrap(w, _manual_insert_keyword(w.inner_text, keyword, char_count))
    ELSE LET enhanced == CleanResponse(replies[i].text)
         IN  IF /\ replies[i].kind = "ok"
                /\ 100 * Len(_clean_latex_commands(enhanced))
                      <= char_count * (100 + 5 * i)
                /\ Contains(lower(enhanced), lower(keyword))
             THEN Rewrap(w, enhanced)
             ELSE TryStrategies(w, keyword, char_count, replies, i + 1)

\* LaTeXOptimizer._enhance_bullet_latex_style
_enhance_bullet_latex_style(original_bullet, keyword, replies) ==
    LET w == SplitWrapper(original_bullet)
        char_count == Len(_clean_latex_commands(w.inner_text))
    IN  TryStrategies(w, keyword, char_count, replies, 1)

\* Every text _enhance_bullet_latex_style can return for the bullet, over
\* all replies of the rewrite service to the three prompts: a reply that
\* strategy i accepts (the earlier strategies having failed), or the manual
\* insertion (all three having failed).
EnhanceOutcomes(original_bullet, keyword) ==
    LET w == SplitWrapper(original_bullet)
        char_count == Len(_clean_latex_commands(w.inner_text))
        fail == [k \in 1..3 |-> [kind |-> "raise", text |-> <<>>]]
    IN  { TryStrategies(w, keyword, char_count, [fail EXCEPT ![i] = r], 1) :
            i \in 1..3, r \in AIReplies(w.inner_text, keyword) }

\* What the length tests of the rewrite measure: the text inside the
\* wrapper, cleaned.
CleanLength(site_text) ==
    Len(_clean_latex_commands(SplitWrapper(site_text).inner_text))

SectionLit == <<"\\", "s", "e", "c", "t", "i", "o", "n", "{", "T", "e", "c", "h", "n", "i", "c", "a", "l", " ", "S", "k", "i", "l", "l", "s", "}">>
LanguagesLit == <<"\\", "t", "e", "x", "t", "b", "f", "{", "L", "a", "n", "g", "u", "a", "g", "e", "s", "}", "{", ":">>
StackLit == <<"\\", "t", "e", "x", "t", "b", "f", "{", "S", "t", "a", "c", "k", "}", "{", ":">>

\* ([^}]+)(\}) matched at offset a: the offset of the closing brace, -1 when
\* it does not match.
ListClose(s, a) ==
    LET e == NextClose(s, a) IN IF e > a /\ e < Len(s) THEN e ELSE -1

\* The two re.search calls of _add_to_skills_section: the match as
\* [start, list, close] (list is where group 2 starts), or None.  The first
\* pattern takes the leftmost section heading behind which a Languages list
\* matches, and the nearest such list (.*? is lazy).
SkillsMatch(s) ==
    LET ls == lower(s)
        section == lower(SectionLit)
        languages == lower(LanguagesLit)
        stack == lower(StackLit)
        ListsFrom(i) ==
            { t \in i..Len(s) : /\ StartsWithAt(ls, t, languages)
                                /\ ListClose(s, t + Len(LanguagesLit)) # -1 }
        A == { i \in 0..Len(s) :
                 /\ StartsWithAt(ls, i, section)
                 /\ ListsFrom(i + Len(SectionLit)) # {} }
        B == { t \in 0..Len(s) : /\ StartsWithAt(ls, t, stack)
                                 /\ ListClose(s, t + Len(StackLit)) # -1 }
    IN  IF A # {}
        THEN LET l0 == MinOf(ListsFrom(MinOf(A) + Len(SectionLit))) + Len(LanguagesLit)
             IN  [start |-> MinOf(A), list |-> l0, close |-> ListClose(s, l0)]
        ELSE IF B # {}
        THEN LET t == MinOf(B)
             IN  [start |-> t, list |-> t + Len(StackLit),
                  close |-> ListClose(s, t + Len(StackLit))]
        ELSE None

\* The loop of _add_to_skills_section over the keywords.
RECURSIVE AppendSkills(_, _, _)
AppendSkills(existing_skills, keywords, added) ==
    IF keywords = <<>> THEN [existing_skills |-> existing_skills, added |-> added]
    ELSE LET kw == Head(keywords)
         IN  IF ~Contains(lower(existing_skills), lower(kw))
             THEN AppendSkills(rstrip(existing_skills) \o <<",", " ">> \o kw,
                               Tail(keywords), Append(added, kw))
             ELSE AppendSkills(existing_skills, Tail(keywords), added)

\* A mutant of _add_to_skills_section: every keyword is reported as added,
\* the skipped ones included.
_add_to_skills_section_reports_all(s, keywords) ==
    LET m == SkillsMatch(s)
    IN  IF m = None THEN [latex_content |-> s, added |-> <<>>]
        ELSE LET r == AppendSkills(Slice(s, m.list, m.close), keywords, <<>>)
                 new_skills_section ==
                    Slice(s, m.start, m.list) \o r.existing_skills \o <<"}">>
             IN  [latex_content |->
                     Replace1(s, Slice(s, m.start, m.close + 1), new_skills_section),
                  added |-> keywords]

\* LaTeXOptimizer._add_to_skills_section
_add_to_skills_section(s, keywords) ==
    LET m == SkillsMatch(s)
    IN  IF m = None THEN [latex_content |-> s, added |-> <<>>]
        ELSE LET r == AppendSkills(Slice(s, m.list, m.close), keywords, <<>>)
                 new_skills_section ==
                    Slice(s, m.start, m.list) \o r.existing_skills \o <<"}">>
             IN  [latex_content |->
                     Replace1(s, Slice(s, m.start, m.close + 1), new_skills_section),
                  added |-> r.added]

\* ChangeTracker.track_bullet_modification; the id "change_N" is kept as N.
\* is_valid is validation_result.get("is_valid", True): the optimizer's
\* validation dicts have no such key, so their status is ACCEPTED.
track_bullet_modification(t, original, modified, section, is_valid) ==
    [changes |-> Append(t.changes,
                    [id |-> t._change_counter + 1, type |-> "BULLET_MODIFIED",
                     status |-> IF is_valid THEN "ACCEPTED" ELSE "REJECTED",
                     original_text |-> original,
                     modified_text |-> modified, section |-> section]),
     _change_counter |-> t._change_counter + 1]

\* ChangeTracker.track_skill_addition
track_skill_addition(t, skill, section) ==
    [changes |-> Append(t.changes,
                    [id |-> t._change_counter + 1, type |-> "SKILL_ADDED",
                     status |-> "ACCEPTED", original_text |-> <<>>,
                     modified_text |-> skill, section |-> section]),
     _change_counter |-> t._change_counter + 1]

\* The loop body of apply_user_selections.
ApplyChange(result, change, selected_change_ids) ==
    IF change.id \in selected_change_ids /\ change.status = "ACCEPTED"
    THEN Replace1(result, change.original_text, change.modified_text)
    ELSE result

\* ChangeTracker.apply_user_selections
RECURSIVE apply_user_selections(_, _, _)
apply_user_selections(changes, selected_change_ids, result) ==
    IF changes = <<>> THEN result
    ELSE apply_user_selections(Tail(changes), selected_change_ids,
             ApplyChange(result, Head(changes), selected_change_ids))

\* The ledger of an optimize call entered into a ChangeTracker, entry by
\* entry: bullet edits as bullet modifications, skills-list edits as skill
\* additions.
RECURSIVE TrackLedger(_, _)
TrackLedger(t, ledger) ==
    IF ledger = <<>> THEN t
    ELSE LET c == Head(ledger)
         IN  TrackLedger(IF c.section = "skills"
                         THEN track_skill_addition(t, c.after, c.section)
                         ELSE track_bullet_modification(t, c.before, c.after, c.section,
                                                        TRUE),
                         Tail(ledger))

MaxBullets == 20    \* max_bullets = min(len(items), 20)
SkillsCap == 15     \* rejected_keywords[:15]
ApproveScore == 50  \* best_validation_score >= 50

Go == <<"g", "o">>
Ml == <<"m", "l">>
Qa == <<"q", "a">>

\* The candidate lists optimize is called with ("" is skipped by the loop).
KeywordLists ==
    { <<>>, <<Go>>, <<Ml>>, << <<>> >>, <<Go, Ml>>, <<Go, Go>>, <<Go, <<>> >>,
      <<Go, Ml, Qa>> }

ItemOf(body) == ItemLit \o <<"{">> \o body \o <<"}">>
StackOf(skills) == StackLit \o skills \o <<"}">>

AB == <<"a", "b">>
CD == <<"c", "d">>
LongBody == [i \in 1..20 |-> "a"]
SkillsC == StackOf(<<" ", "c">>)

\* One deferred term more than the fallback passes on (rejected_keywords[:15]):
\* sixteen distinct two-letter terms, none of them part of another.
CapTerms ==
    LET second == <<"a", "b", "d", "e", "f", "g", "h", "i", "j", "k", "l", "m",
                    "n", "o", "p", "q">>
    IN  SubSeq([i \in 1..(SkillsCap + 1) |-> <<"t", second[i]>>], 1, SkillsCap + 1)

\* A bullet too short for any rewrite to fit a two-letter term, and a
\* skills list: every term of CapTerms is deferred.
CapDocument == ItemOf(<<"a">>) \o SkillsC

\* One bullet more than the loop over items[:max_bullets] visits.
ManyItems == Flatten([i \in 1..(MaxBullets + 1) |-> ItemOf(<<"a">>)])

\* The documents optimize is called on: one or two bullet items with and
\* without a skills list, twice the same bullet, no bullet, a long bullet
\* (the manual insertion fits), a skills list that already has a term, a
\* standard \item line, an item whose brace never closes, more bullets
\* than max_bullets, and a bullet that already holds a candidate term.
Documents ==
    { ItemOf(AB) \o SkillsC,
      ItemOf(AB),
      ItemOf(AB) \o ItemOf(CD) \o SkillsC,
      ItemOf(AB) \o ItemOf(AB) \o SkillsC,
      SkillsC,
      ItemOf(LongBody) \o SkillsC,
      ItemOf(AB) \o StackOf(<<" ", "G", "o">>),
      ItemLit \o <<" ", "a", "b", "\n">> \o SkillsC,
      ItemLit \o <<"{", "a", "b">> \o ItemOf(CD),
      ManyItems,
      ItemOf(Qa) }

\* The verdicts the optimizer's Layer 1 (the static validator: LlamaOptimizer
\* has no attribute client, so llm_client is None) can give.
OptimizerL1 ==
    { TechDecision(find_keyword_ecosystems(k), extract_context_ecosystems(c)) :
        k \in {"kubernetes"}, c \in {"did qa", "built rest apis using node.js"} }

\* What the embedding model does on the optimizer's Layer 3 calls.
OptimizerEmbeds ==
    { e \in EmbedReplies : e.kind = "raise" \/ e.sim = 8000 }

\* validate_keyword as the optimizer calls it: static Layer 1, no Layer 2,
\* strict_mode=False.
ValidateForOptimizer(l1, emb, loaded) ==
    LET r1 == [EmptyResults EXCEPT !.layer1_result = l1,
                                   !.decision_path = <<"Layer1">>]
        l3 == validate_keyword_similarity(loaded, emb, DefaultThreshold)
        r3 == [r1 EXCEPT !.layer3_result = l3,
                         !.decision_path = <<"Layer1", "Layer3">>]
    IN  IF Layer1Exit(l1) THEN EarlyReturn(r1, "HIGH")
        ELSE IF Layer3Exit(l3, FALSE) THEN EarlyReturn(r3, "MEDIUM")
        ELSE CombinedReturn(r3, FALSE, FALSE)

OptimizerValidations(loaded) ==
    { ValidateForOptimizer(l1, emb, loaded) :
        l1 \in OptimizerL1, emb \in OptimizerEmbeds }

\* MultiLayerValidator.stats after one validate_keyword call returned v.
StatsAfter(st, v) ==
    LET st1 == Bump(st, "total_validations")
    IN  IF v.early /\ Len(v.decision_path) = 1 THEN Bump(st1, "layer1_rejections")
        ELSE IF v.early THEN Bump(st1, "layer3_rejections")
        ELSE IF v.valid THEN Bump(st1, "approved")
        ELSE st1

RECURSIVE StatsAfterAll(_, _)
StatsAfterAll(st, vs) ==
    IF vs = <<>> THEN st ELSE StatsAfterAll(StatsAfter(st, Head(vs)), Tail(vs))

\* The placement score of one validation, in thousandths: 50 / 65 / 85 by
\* overall confidence, plus 15 times a non-zero similarity score, at most 100.
PlacementScore(validation) ==
    LET base == IF validation.overall_confidence = "HIGH" THEN 85
                ELSE IF validation.overall_confidence = "MEDIUM" THEN 65
                ELSE 50
        l3 == validation.layer3_result
        boost == IF l3 # None /\ l3.similarity_score # 0
                 THEN l3.similarity_score * 15 ELSE 0
    IN  Min(100 * 1000, base * 1000 + boost)

NoPlacement == [idx |-> -1, score |-> 0, validation |-> None]

\* The search for the best bullet: the loop over items[:max_bullets] with
\* the validations vals, from item i (1-based) on.
RECURSIVE BestPlacement(_, _, _)
BestPlacement(vals, i, best) ==
    IF i > Len(vals) THEN best
    ELSE BestPlacement(vals, i + 1,
             IF vals[i].valid /\ PlacementScore(vals[i]) > best.score
             THEN [idx |-> i - 1, score |-> PlacementScore(vals[i]),
                   validation |-> vals[i]]
             ELSE best)

\* One entry of changes_made.  placement_score is -1 where the dict has no
\* such key; site is not in the dict: it is the index in `items` of the
\* bullet whose text is `before` (-1 for a skills-list entry).
LedgerEntry(keyword, section, before, after, confidence, placement_score, site) ==
    [keyword |-> keyword, section |-> section, before |-> before,
     after |-> after, confidence |-> confidence,
     placement_score |-> placement_score, site |-> site]

\* optimize_latex_resume, entry.  A non-empty job_description raises: the
\* prioritizer is called with three arguments and takes two.
OptimizeStart ==
    /\ opc = "idle"
    /\ IF job_description # <<>>
       THEN /\ opc' = "raised"
            /\ oret' = [raised |-> "TypeError"]
            /\ UNCHANGED <<items, optimized_latex, added_keywords,
                           rejected_keywords, keywords_to_process, changes_made>>
       ELSE /\ opc' = "loop"
            /\ changes_made' = <<>>
            /\ items' = _extract_items(latex_content)
            /\ optimized_latex' = latex_content
            /\ added_keywords' = <<>>
            /\ rejected_keywords' = <<>>
            /\ keywords_to_process' = missing_keywords
            /\ UNCHANGED oret
    /\ UNCHANGED <<latex_content, missing_keywords, job_description, tracker,
                   replayed, extracted, processed, best_bullet_idx, calls, vvars, l3call, l1call, pvars>>

\* A mutant of max_bullets: only the first bullet is tried.
BulletLimitOne(its) == Min(Len(its), 1)

\* max_bullets = min(len(items), 20)
BulletLimit(its) == Min(Len(its), MaxBullets)

\* A mutant of the verification: the rewrite only has to hold the term.
VerifiedPresenceOnly(keyword, enhanced_item, original_item) ==
    Contains(lower(enhanced_item), lower(keyword))

\* "Verify it was added": keyword.lower() in enhanced_item.lower() and
\* enhanced_item != original_item
Verified(keyword, enhanced_item, original_item) ==
    /\ Contains(lower(enhanced_item), lower(keyword))
    /\ enhanced_item # original_item

\* One iteration of the loop over keywords_to_process.  vals are the
\* validations of the keyword against the items, e1 is what the rewrite of
\* the best bullet returns and e2 what the second rewrite (the block after
\* the decision) returns.
KeywordIteration(keyword, vals, e1, e2) ==
    LET max_bullets == Len(vals)
        best == BestPlacement(vals, 1, NoPlacement)
        approved == best.idx # -1 /\ best.score >= ApproveScore * 1000
        site == IF approved THEN best.idx ELSE max_bullets - 1
        original_item == items[site + 1].text
        validation == vals[max_bullets]
        ok1 == approved /\ Verified(keyword, e1, original_item)
        latex1 == IF ok1 THEN Replace1(optimized_latex, original_item, e1)
                  ELSE optimized_latex
        added1 == IF ok1 THEN Append(added_keywords, keyword) ELSE added_keywords
        changes1 == IF ok1
                    THEN Append(changes_made,
                             LedgerEntry(keyword, "experience", original_item, e1,
                                         best.validation.overall_confidence,
                                         best.score, site))
                    ELSE changes_made
        ok2 == Verified(keyword, e2, original_item)
    IN  /\ rejected_keywords' = IF ok1 THEN rejected_keywords
                                ELSE Append(rejected_keywords, keyword)
        /\ optimized_latex' = IF ok2 THEN Replace1(latex1, original_item, e2)
                              ELSE latex1
        /\ added_keywords' = IF ok2 THEN Append(added1, keyword) ELSE added1
        /\ missing_keywords' = IF ok2 THEN Tail(missing_keywords)
                               ELSE missing_keywords
        /\ changes_made' = IF ok2
                           THEN Append(changes1,
                                    LedgerEntry(keyword, "experience", original_item,
                                                e2, validation.overall_confidence,
                                                -1, site))
                           ELSE changes1

ProcessKeyword ==
    /\ opc = "loop"
    /\ keywords_to_process # <<>>
    /\ keywords_to_process' = Tail(keywords_to_process)
    /\ processed' = Append(processed, Head(keywords_to_process))
    /\ LET keyword == Head(keywords_to_process)
           max_bullets == BulletLimit(items)
           contexts == { _clean_latex_commands(items[i].text) : i \in 1..max_bullets }
       IN  IF keyword = <<>>
           THEN UNCHANGED <<opc, oret, optimized_latex, added_keywords,
                            rejected_keywords, changes_made, missing_keywords,
                            stats, best_bullet_idx>>
           ELSE IF items = <<>>
           THEN \* no bullet: the term is rejected, then the second rewrite
                \* reads original_item, which was never bound
                /\ rejected_keywords' = Append(rejected_keywords, keyword)
                /\ opc' = "raised"
                /\ oret' = [raised |-> "UnboundLocalError"]
                /\ best_bullet_idx' = -1
                /\ UNCHANGED <<optimized_latex, added_keywords, changes_made,
                               missing_keywords, stats>>
           ELSE LET outcomes == SubSeq([i \in 1..max_bullets |->
                                   EnhanceOutcomes(items[i].text, keyword)],
                                       1, max_bullets)
                    clean == SubSeq([i \in 1..max_bullets |->
                                _clean_latex_commands(items[i].text)],
                                    1, max_bullets)
                    verdicts == OptimizerValidations(model_loaded)
                IN  \E oracle \in [contexts -> verdicts] :
                      LET vals == SubSeq([i \in 1..max_bullets |-> oracle[clean[i]]],
                                         1, max_bullets)
                          best == BestPlacement(vals, 1, NoPlacement)
                          approved == /\ best.idx # -1
                                      /\ best.score >= ApproveScore * 1000
                          site == IF approved THEN best.idx ELSE max_bullets - 1
                      IN  /\ stats' = StatsAfterAll(stats, vals)
                          /\ best_bullet_idx' = best.idx
                          /\ \E e1 \in IF approved THEN outcomes[site + 1]
                                       ELSE { <<>> },
                                e2 \in outcomes[site + 1] :
                                  KeywordIteration(keyword, vals, e1, e2)
                          /\ UNCHANGED <<opc, oret>>
    /\ UNCHANGED <<latex_content, job_description, items, tracker, replayed,
                   extracted, calls, cfg, model_loaded, vpc, vin, results, vret,
                   compatibility_cache, l3call, l1call, pvars>>

\* Step 3 and the return.  With no rejected term skills_added is never bound
\* and the closing report raises.
Fallback ==
    /\ opc = "loop"
    /\ keywords_to_process = <<>>
    /\ IF rejected_keywords # <<>>
       THEN LET r == _add_to_skills_section(optimized_latex,
                        Slice(rejected_keywords, 0,
                              Min(SkillsCap, Len(rejected_keywords))))
                entries == [i \in 1..Len(r.added) |->
                              LedgerEntry(r.added[i], "skills", <<>>, r.added[i],
                                          "HIGH", -1, -1)]
            IN  /\ optimized_latex' = r.latex_content
                /\ changes_made' = changes_made \o entries
                /\ added_keywords' = added_keywords \o r.added
                /\ opc' = "done"
                /\ oret' = [optimized_latex |-> optimized_latex',
                            added_keywords |-> added_keywords',
                            changes_made |-> changes_made']
       ELSE /\ opc' = "raised"
            /\ oret' = [raised |-> "UnboundLocalError"]
            /\ UNCHANGED <<optimized_latex, changes_made, added_keywords>>
    /\ UNCHANGED <<latex_content, missing_keywords, job_description, items,
                   rejected_keywords, keywords_to_process, tracker, replayed, processed, best_bullet_idx, calls,
                   extracted, vvars, l3call, l1call, pvars>>

\* The returned ledger is entered into a fresh ChangeTracker and replayed on
\* the original document, with every id selected or with none.
Replay ==
    /\ opc = "done"
    /\ replayed = None
    /\ LET t == TrackLedger(NoTracker, oret.changes_made)
           ids == { t.changes[i].id : i \in 1..Len(t.changes) }
       IN  /\ tracker' = t
           /\ \E selected \in {ids, {}} :
                 replayed' = [selected |-> selected, all |-> (selected = ids),
                              result |-> apply_user_selections(t.changes, selected,
                                                               latex_content)]
    /\ UNCHANGED <<latex_content, missing_keywords, job_description, opc, items,
                   optimized_latex, added_keywords, rejected_keywords,
                   keywords_to_process, changes_made, oret, extracted, processed,
                   best_bullet_idx, calls, vvars,
                   l3call, l1call, pvars>>

InitO ==
    /\ \/ /\ latex_content \in Documents
          /\ missing_keywords \in KeywordLists
       \/ /\ latex_content = CapDocument
          /\ missing_keywords = CapTerms
    /\ job_description \in { <<>>, <<"x">> }
    /\ opc = "idle"
    /\ items = <<>>
    /\ optimized_latex = <<>>
    /\ added_keywords = <<>>
    /\ rejected_keywords = <<>>
    /\ keywords_to_process = <<>>
    /\ changes_made = <<>>
    /\ oret = None
    /\ tracker = NoTracker
    /\ replayed = None
    /\ processed = <<>>
    /\ best_bullet_idx = -1
    /\ calls = NoCalls
    /\ extracted = <<>>
    /\ cfg = [adaptive |-> FALSE, hasLLM |-> FALSE]
    /\ model_loaded = TRUE
    /\ vpc = "idle"
    /\ vin = NoCall
    /\ results = EmptyResults
    /\ vret = None
    /\ stats = ZeroStats
    /\ compatibility_cache = EmptyCache
    /\ l3call = NoL3Call
    /\ l1call = NoL1Call
    /\ IdleP

NextO == OptimizeStart \/ ProcessKeyword \/ Fallback \/ Replay

SpecO == InitO /\ [][NextO]_vars

\* C1 (Ledger replay fidelity), as stated: once an optimize call has
\* returned, replaying every ledger entry on the original document gives
\* the returned document.  The editor breaks it: see C1_Original's trace.
C1_Original ==
    (replayed # None /\ replayed.all) => replayed.result = oret.optimized_latex

\* C2 (Disjointness), as stated, in its particular case: after a completed
\* optimize call no two ledger entries made by the placement step for
\* different terms have the same bullet site as their before span.
C2_Original ==
    opc = "done" =>
        \A i, j \in 1..Len(changes_made) :
            ( /\ i # j
              /\ changes_made[i].placement_score # -1
              /\ changes_made[j].placement_score # -1
              /\ changes_made[i].keyword # changes_made[j].keyword )
            => changes_made[i].site # changes_made[j].site

C15_AcceptedEditWellFormed ==
    /\ [](\A i \in 1..Len(changes_made) :
             /\ Contains(lower(changes_made[i].after),
                         lower(changes_made[i].keyword))
             /\ changes_made[i].after # changes_made[i].before)
    /\ [][(opc = "loop" /\ keywords_to_process # <<>>
             /\ changes_made' = changes_made)
            => optimized_latex' = optimized_latex]_vars

\* C15 witness: a completed call whose ledger has a bullet edit and a
\* skills-list edit, the latter for a term whose rewrite was not recorded.
C15_Witness ==
    /\ opc = "done"
    /\ \E i, j \in 1..Len(changes_made) :
          /\ changes_made[i].section = "experience"
          /\ changes_made[j].section = "skills"

Occurrences(seq, x) == Cardinality({ i \in 1..Len(seq) : seq[i] = x })

\* What the fallback step (Step 3) of the optimize call says of the deferred
\* terms `deferred`, where s is the document before the step and s2 the
\* document after it, and reported are the terms the step adds to
\* added_keywords.
FallbackBucket(s, s2, deferred, reported) ==
    LET m == SkillsMatch(s) IN
    IF m = None THEN s2 = s /\ reported = <<>>
    ELSE LET close2 == Len(s2) - (Len(s) - m.close)
             span == lower(Slice(s, m.list, m.close))
             span2 == lower(Slice(s2, m.list, close2))
         IN  /\ close2 >= m.close
             /\ Slice(s2, 0, m.list) = Slice(s, 0, m.list)
             /\ Slice(s2, close2, Len(s2)) = Slice(s, m.close, Len(s))
             /\ \A i \in 1..Len(deferred) : \A kw \in { deferred[i] } :
                   /\ Contains(span2, lower(kw))
                   /\ IF Contains(span, lower(kw))
                      THEN Occurrences(reported, kw) = 0
                      ELSE /\ Occurrences(reported, kw) = 1
                           /\ Contains(span2, <<",", " ">> \o lower(kw))
             /\ \A j \in 1..Len(reported) : Occurrences(deferred, reported[j]) > 0

\* The terms the step from this state to the next adds to added_keywords.
ReportedByStep == SubSeq(added_keywords', Len(added_keywords) + 1, Len(added_keywords'))

\* C17 (Fallback bucket), as stated. The fallback step appends every deferred
\* term to the skills-list span exactly once, unless it is already there
\* case-insensitively, and then it is skipped and not reported; it makes no
\* validation call; the text outside the span is unchanged; with no
\* skills-list construct the document is unchanged and nothing is reported.
C17_Original ==
    [][(opc = "loop" /\ opc' = "done") =>
          /\ FallbackBucket(optimized_latex, optimized_latex', rejected_keywords,
                            ReportedByStep)
          /\ stats' = stats]_vars

\* C17, amended. The same of the first 15 deferred terms only: a term
\* deferred after the 15th is neither appended to the span nor reported.
C17_FallbackBucket ==
    [][(opc = "loop" /\ opc' = "done") =>
          /\ FallbackBucket(optimized_latex, optimized_latex',
                            Slice(rejected_keywords, 0,
                                  Min(SkillsCap, Len(rejected_keywords))),
                            ReportedByStep)
          /\ \A i \in (SkillsCap + 1)..Len(rejected_keywords) :
                Occurrences(Slice(rejected_keywords, 0, SkillsCap),
                            rejected_keywords[i]) = 0
                    => Occurrences(ReportedByStep, rejected_keywords[i]) = 0
          /\ stats' = stats
          /\ Len(changes_made') = Len(changes_made) + Len(ReportedByStep)]_vars

\* C17 witness: a completed call that deferred more than 15 terms and
\* reported 15 skills-list additions.
C17_Witness ==
    /\ opc = "done"
    /\ Len(rejected_keywords) > SkillsCap
    /\ Len(added_keywords) = SkillsCap
    /\ \A i \in 1..Len(changes_made) : changes_made[i].section = "skills"

\* C17 witness of the skip: a completed call on a document whose skills list
\* already holds a deferred term, which is not reported.
C17_WitnessSkip ==
    /\ opc = "done"
    /\ SkillsMatch(latex_content) # None
    /\ rejected_keywords # <<>>
    /\ added_keywords = <<>>
    /\ optimized_latex = latex_content

\* C18 (Per-term state machine), as stated, for one iteration of the loop
\* over the candidate terms: processing a term appends at most one entry to
\* the ledger, adds the term at most once to added_keywords, and never both
\* accepts it into a bullet and defers it to the fallback.  The second
\* rewrite of the loop body breaks it: see C18_Original's trace.
C18_Original ==
    [][(opc = "loop" /\ keywords_to_process # <<>>) =>
          /\ Len(changes_made') <= Len(changes_made) + 1
          /\ Len(added_keywords') <= Len(added_keywords) + 1
          /\ ~ ( /\ Len(rejected_keywords') > Len(rejected_keywords)
                 /\ Len(added_keywords') > Len(added_keywords) )]_vars

\* The positions at which the loop over the candidate terms visited k: the
\* priority order of the call is the order of the visits.
VisitsOf(k) == { a \in 1..Len(processed) : processed[a] = k }

\* Entry i of the ledger does not belong to a term of lower priority than
\* the term of entry j.
NotLowerPriority(i, j) ==
    \E a \in VisitsOf(changes_made[i].keyword), b \in VisitsOf(changes_made[j].keyword) :
        a <= b

\* The ledger of a completed call is in the priority order of its terms.
LedgerInPriorityOrder ==
    opc = "done" =>
        \A i, j \in 1..Len(changes_made) : i < j => NotLowerPriority(i, j)

\* Every bullet entry an iteration of the loop appends refers to the site
\* its placement search selected.
EntriesReferToSelectedSite ==
    (opc = "loop" /\ keywords_to_process # <<>>) =>
        \A j \in (Len(changes_made) + 1)..Len(changes_made') :
            /\ best_bullet_idx' # -1
            /\ changes_made'[j].site = best_bullet_idx'

\* C19 (Ledger ordering), as stated. The entries of the returned ledger are
\* in the priority order of their terms, bullet edits and skills-list edits
\* alike, and the entry of a term refers to the single site the placement
\* search selected.  Both halves fail: see C19_Original's trace.
C19_Original ==
    /\ []LedgerInPriorityOrder
    /\ [][EntriesReferToSelectedSite]_vars

\* C20 (Ledger completeness and append-only), as stated. After a completed
\* optimize call every term the loop processed has at least one entry in the
\* ledger, and a term that was not inserted has one too (its rejected
\* attempt); the ids of the tracker are unique and its total is the number of
\* its accepted entries plus the number of its rejected ones.  The optimizer
\* records accepted edits only: see C20_Original's trace.
C20_Original ==
    /\ opc = "done" =>
          \A a \in 1..Len(processed) :
              processed[a] # <<>> =>
                  \E i \in 1..Len(changes_made) :
                      changes_made[i].keyword = processed[a]
    /\ \A i, j \in 1..Len(tracker.changes) :
          i # j => tracker.changes[i].id # tracker.changes[j].id
    /\ Len(tracker.changes)
          = Cardinality({ i \in 1..Len(tracker.changes) :
                            tracker.changes[i].status = "ACCEPTED" })
            + Cardinality({ i \in 1..Len(tracker.changes) :
                              tracker.changes[i].status = "REJECTED" })

(***************************************************************************)
(* The ChangeTracker used directly: changes are tracked, then subsets of   *)
(* them are replayed on a document.                                        *)
(***************************************************************************)

MaxChanges == 2     \* the number of changes tracked before the replay

\* The before and after texts of the tracked changes.
TrackerTexts == { AB, CD, <<"x">> }

\* The documents the selections are applied to.
TrackerDocuments == { AB \o CD, AB \o AB, CD \o AB \o <<"x">> }

\* tracker.track_bullet_modification(original, modified, ...), with a
\* validation_result whose is_valid is True (or absent) or False.
TrackBullet ==
    /\ replayed = None
    /\ Len(tracker.changes) < MaxChanges
    /\ \E original \in TrackerTexts, modified \in TrackerTexts, is_valid \in BOOLEAN :
          tracker' = track_bullet_modification(tracker, original, modified,
                                               "experience", is_valid)
    /\ UNCHANGED <<latex_content, missing_keywords, job_description, opc, items,
                   optimized_latex, added_keywords, rejected_keywords,
                   keywords_to_process, changes_made, oret, replayed, extracted,
                   processed, best_bullet_idx, calls, vvars, l3call, l1call, pvars>>

\* tracker.track_skill_addition(skill, ...)
TrackSkill ==
    /\ replayed = None
    /\ Len(tracker.changes) < MaxChanges
    /\ \E skill \in TrackerTexts :
          tracker' = track_skill_addition(tracker, skill, "skills")
    /\ UNCHANGED <<latex_content, missing_keywords, job_description, opc, items,
                   optimized_latex, added_keywords, rejected_keywords,
                   keywords_to_process, changes_made, oret, replayed, extracted,
                   processed, best_bullet_idx, calls, vvars, l3call, l1call, pvars>>

\* tracker.apply_user_selections(selected_change_ids, latex_content)
ApplySelections ==
    /\ \E selected \in SUBSET { tracker.changes[i].id : i \in 1..Len(tracker.changes) } :
          replayed' =
               [selected |-> selected,
                all |-> (selected = { tracker.changes[i].id :
                                        i \in 1..Len(tracker.changes) }),
                result |-> apply_user_selections(tracker.changes, selected,
                                                 latex_content)]
    /\ UNCHANGED <<latex_content, missing_keywords, job_description, opc, items,
                   optimized_latex, added_keywords, rejected_keywords,
                   keywords_to_process, changes_made, oret, tracker, extracted,
                   processed, best_bullet_idx, calls, vvars, l3call, l1call, pvars>>

InitT ==
    /\ latex_content \in TrackerDocuments
    /\ missing_keywords = <<>>
    /\ job_description = <<>>
    /\ opc = "idle"
    /\ items = <<>>
    /\ optimized_latex = <<>>
    /\ added_keywords = <<>>
    /\ rejected_keywords = <<>>
    /\ keywords_to_process = <<>>
    /\ changes_made = <<>>
    /\ oret = None
    /\ tracker = NoTracker
    /\ replayed = None
    /\ extracted = <<>>
    /\ processed = <<>>
    /\ best_bullet_idx = -1
    /\ calls = NoCalls
    /\ IdleV
    /\ l3call = NoL3Call
    /\ l1call = NoL1Call
    /\ IdleP

NextT == TrackBullet \/ TrackSkill \/ ApplySelections

SpecT == InitT /\ [][NextT]_vars

\* The changes a replay request applies: the ACCEPTED ones whose id is
\* requested, in ledger order.
Requested(changes, selected) ==
    SelectSeq(changes, LAMBDA c : c.status = "ACCEPTED" /\ c.id \in selected)

\* The changes cs substituted one after the other, each at the first
\* occurrence of its before text.
RECURSIVE Substitute(_, _)
Substitute(cs, doc) ==
    IF cs = <<>> THEN doc
    ELSE Substitute(Tail(cs), Replace1(doc, Head(cs).original_text,
                                       Head(cs).modified_text))

\* The requested changes are applied, and nothing else.
ReplaysRequested ==
    replayed # None =>
        /\ replayed.result = Substitute(Requested(tracker.changes, replayed.selected),
                                        latex_content)
        /\ replayed.selected = {} => replayed.result = latex_content

\* The before texts of the changes cs are non-empty and occupy pairwise
\* disjoint spans of doc.
DisjointBeforeSpans(cs, doc) ==
    /\ \A i \in 1..Len(cs) :
          cs[i].original_text # <<>> /\ Find(doc, cs[i].original_text, 0) # -1
    /\ \A i, j \in 1..Len(cs) :
          i # j =>
              LET pi == Find(doc, cs[i].original_text, 0)
                  pj == Find(doc, cs[j].original_text, 0)
              IN  \/ pi + Len(cs[i].original_text) <= pj
                  \/ pj + Len(cs[j].original_text) <= pi

\* The orders in which n changes can be applied.
Orders(n) == { p \in [1..n -> 1..n] : \A i, j \in 1..n : i # j => p[i] # p[j] }

\* Requested edits with disjoint before spans give the same document in
\* whatever order they are applied.
OrderIndependent ==
    replayed # None =>
        \A cs \in { Requested(tracker.changes, replayed.selected) } :
            DisjointBeforeSpans(cs, latex_content) =>
                \A p \in Orders(Len(cs)) :
                    Substitute([i \in 1..Len(cs) |-> cs[p[i]]], latex_content)
                        = replayed.result

\* C21 (Selective replay), as stated. apply_user_selections applies exactly
\* the ACCEPTED changes whose id is requested, in ledger order, each as one
\* first-occurrence substitution; an empty request returns the document
\* unchanged; the ledger is not modified; and requested edits with pairwise
\* disjoint before spans give the same result in any order.  The last part
\* fails: see C21_Original's trace.
C21_Original ==
    /\ [](ReplaysRequested /\ OrderIndependent)
    /\ [][replayed' # replayed => tracker' = tracker]_vars

\* C22 (No insertion site), as stated. A call on a document with no
\* extractable item, made without a job description, ends by returning the
\* original document, an empty ledger and no accepted term; it does not
\* raise.  Every such call raises: see C22_Original's trace.
C22_Original ==
    ( /\ opc \in {"done", "raised"}
      /\ job_description = <<>>
      /\ _extract_items(latex_content) = <<>> ) =>
        /\ opc = "done"
        /\ oret.optimized_latex = latex_content
        /\ oret.added_keywords = <<>>
        /\ oret.changes_made = <<>>

\* C23 (Failure locality), as stated. Whatever the document, the candidate
\* terms, the job description and the behaviour of the oracles and of the
\* rewrite service, no optimize call ends by raising.  Calls with a job
\* description, calls without an extractable item and calls that defer no
\* term all raise: see C23_Original's trace.
C23_Original == opc # "raised" /\ (oret # None => opc = "done")

\* A completed call with one candidate term, which the validation rejected
\* at every bullet site, on a document with a skills list that lacks it.
DeferredEverywhere ==
    /\ opc = "done"
    /\ Len(processed) = 1
    /\ items # <<>>
    /\ best_bullet_idx = -1
    /\ SkillsMatch(latex_content) # None
    /\ LET m == SkillsMatch(latex_content)
       IN  ~Contains(lower(Slice(latex_content, m.list, m.close)),
                     lower(processed[1]))

\* C24 (Deferred term leaves bullets untouched), as stated. When the term
\* was rejected at every bullet site, every bullet of the returned document
\* has its original text, the skills list ends with ", <term>", and the
\* ledger has exactly one entry for the term, a skills-list one.  The second
\* rewrite of the loop body breaks it: see C24_Original's trace.
C24_Original ==
    DeferredEverywhere =>
        /\ \A i \in 1..Len(items) : Contains(optimized_latex, items[i].text)
        /\ Contains(optimized_latex, <<",", " ">> \o processed[1] \o <<"}">>)
        /\ Len(optimized_latex) = Len(latex_content) + 2 + Len(processed[1])
        /\ Len(changes_made) = 1
        /\ changes_made[1].section = "skills"
        /\ changes_made[1].keyword = processed[1]
        /\ added_keywords = <<processed[1]>>

(***************************************************************************)
(* Two optimize calls interleaved on the one LaTeXOptimizer instance of    *)
(* the HTTP layer.  changes_made is the attribute self.changes_made, which *)
(* both calls reset and append to; everything else is local to a call and  *)
(* kept in calls[c].  A step is one iteration of the loop over the terms.  *)
(***************************************************************************)

\* The two calls: independent documents, each with one bullet and a skills
\* list, and disjoint candidate terms.
CallInputs ==
    <<[latex_content |-> ItemOf(AB) \o SkillsC, missing_keywords |-> <<Go, Ml>>],
      [latex_content |-> ItemOf(CD) \o StackOf(<<" ", "d">>),
       missing_keywords |-> <<Qa>>]>>

CallIds == 1..Len(CallInputs)

\* The locals of a call that has not started.
IdleCall(c) ==
    [pc |-> "idle", latex_content |-> CallInputs[c].latex_content,
     keywords_to_process |-> CallInputs[c].missing_keywords,
     items |-> <<>>, optimized_latex |-> <<>>, added_keywords |-> <<>>,
     rejected_keywords |-> <<>>, ret |-> None]

\* Lines 85-101 of optimize_latex_resume in call c: the shared ledger is
\* reset, the locals are bound.
CallStart(c) ==
    /\ calls[c].pc = "idle"
    /\ changes_made' = <<>>
    /\ calls' = [calls EXCEPT ![c] =
                   [@ EXCEPT !.pc = "loop",
                             !.items = _extract_items(calls[c].latex_content),
                             !.optimized_latex = calls[c].latex_content]]

\* One iteration of the loop over the terms in call c (lines 103-216), on a
\* document with one bullet: approved is the decision of the placement
\* search, e1 and e2 are what the two rewrites return.
CallKeyword(c) ==
    /\ calls[c].pc = "loop"
    /\ calls[c].keywords_to_process # <<>>
    /\ LET l == calls[c]
           keyword == Head(l.keywords_to_process)
           original_item == l.items[1].text
           outcomes == EnhanceOutcomes(original_item, keyword)
       IN  \E approved \in BOOLEAN :
           \E e1 \in IF approved THEN outcomes ELSE { <<>> }, e2 \in outcomes :
              LET ok1 == approved /\ Verified(keyword, e1, original_item)
                  ok2 == Verified(keyword, e2, original_item)
                  latex1 == IF ok1 THEN Replace1(l.optimized_latex, original_item, e1)
                            ELSE l.optimized_latex
                  added1 == IF ok1 THEN Append(l.added_keywords, keyword)
                            ELSE l.added_keywords
                  changes1 == IF ok1
                              THEN Append(changes_made,
                                       LedgerEntry(keyword, "experience",
                                                   original_item, e1, "HIGH", 85000, 0))
                              ELSE changes_made
              IN  /\ changes_made' =
                        IF ok2
                        THEN Append(changes1,
                                 LedgerEntry(keyword, "experience", original_item,
                                             e2, "HIGH", -1, 0))
                        ELSE changes1
                  /\ calls' = [calls EXCEPT ![c] =
                       [@ EXCEPT
                          !.keywords_to_process = Tail(@),
                          !.rejected_keywords = IF ok1 THEN @ ELSE Append(@, keyword),
                          !.optimized_latex = IF ok2 THEN Replace1(latex1, original_item, e2)
                                              ELSE latex1,
                          !.added_keywords = IF ok2 THEN Append(added1, keyword)
                                             ELSE added1]]

\* Step 3 and the return in call c (lines 218-256).
CallFallback(c) ==
    /\ calls[c].pc = "loop"
    /\ calls[c].keywords_to_process = <<>>
    /\ LET l == calls[c] IN
       IF l.rejected_keywords # <<>>
       THEN LET r == _add_to_skills_section(l.optimized_latex,
                        Slice(l.rejected_keywords, 0,
                              Min(SkillsCap, Len(l.rejected_keywords))))
                entries == SubSeq([i \in 1..Len(r.added) |->
                              LedgerEntry(r.added[i], "skills", <<>>, r.added[i],
                                          "HIGH", -1, -1)], 1, Len(r.added))
            IN  /\ changes_made' = changes_made \o entries
                /\ calls' = [calls EXCEPT ![c] =
                     [@ EXCEPT !.pc = "done",
                               !.optimized_latex = r.latex_content,
                               !.added_keywords = @ \o r.added,
                               !.ret = [optimized_latex |-> r.latex_content,
                                        added_keywords |-> l.added_keywords \o r.added,
                                        changes_made |-> changes_made \o entries]]]
       ELSE /\ calls' = [calls EXCEPT ![c] =
                           [@ EXCEPT !.pc = "raised",
                                     !.ret = [raised |-> "UnboundLocalError"]]]
            /\ UNCHANGED changes_made

\* A step of one of the calls.
CallStep ==
    /\ \E c \in CallIds : CallStart(c) \/ CallKeyword(c) \/ CallFallback(c)
    /\ UNCHANGED <<latex_content, missing_keywords, job_description, opc, items,
                   optimized_latex, added_keywords, rejected_keywords,
                   keywords_to_process, oret, tracker, replayed, extracted,
                   processed, best_bullet_idx, vvars, l3call, l1call, pvars>>

InitI ==
    /\ latex_content = <<>>
    /\ missing_keywords = <<>>
    /\ job_description = <<>>
    /\ opc = "idle"
    /\ items = <<>>
    /\ optimized_latex = <<>>
    /\ added_keywords = <<>>
    /\ rejected_keywords = <<>>
    /\ keywords_to_process = <<>>
    /\ changes_made = <<>>
    /\ oret = None
    /\ tracker = NoTracker
    /\ replayed = None
    /\ extracted = <<>>
    /\ processed = <<>>
    /\ best_bullet_idx = -1
    /\ calls = [c \in CallIds |-> IdleCall(c)]
    /\ IdleV
    /\ l3call = NoL3Call
    /\ l1call = NoL1Call
    /\ IdleP

NextI == CallStep

SpecI == InitI /\ [][NextI]_vars

\* The ledger call c returned holds only edits of c's own terms on c's own
\* document, one for every term it reports as added.
ReturnsOwnLedger(c) ==
    calls[c].pc = "done" =>
        LET ledger == calls[c].ret.changes_made IN
        /\ \A i \in 1..Len(ledger) :
              /\ Occurrences(CallInputs[c].missing_keywords, ledger[i].keyword) > 0
              /\ ledger[i].section = "experience"
                    => Contains(CallInputs[c].latex_content, ledger[i].before)
        /\ Len(ledger) = Len(calls[c].ret.added_keywords)

\* C25 (Isolation of concurrent optimize calls), as stated. Each of two
\* interleaved calls on independent documents returns the ledger it would
\* return when run alone: no entry made for the other document, and one
\* entry for each of its accepted terms.  The calls share
\* self.changes_made: see C25_Original's trace.
C25_Original == \A c \in CallIds : ReturnsOwnLedger(c)

(***************************************************************************)
(* C26: the early exits against the evaluation of every layer              *)
(***************************************************************************)

\* The verdicts a layer that was skipped could have returned on this call.
Layer2Completions ==
    IF L2 # None THEN {L2}
    ELSE IF cfg.hasLLM THEN { LLMResult(reply) : reply \in L2Replies }
    ELSE {None}
Layer3Completions ==
    IF L3 # None THEN {L3}
    ELSE { validate_keyword_similarity(model_loaded, emb, DefaultThreshold) :
              emb \in PipelineEmbedReplies }

\* The final decision rule applied to the verdicts of every layer.
FullEvaluation(l2, l3) ==
    final_valid(Vote(L1) + Vote(l2) + Vote(l3), total_layers(cfg.hasLLM),
                vin.strict_mode)

\* The early exit was taken at Layer 2 on a verdict that is believable but
\* carries the FABRICATION risk.
BelievableVeto == L2 # None /\ L3 = None /\ L2.valid

\* C26 as stated (Short-circuit preserves the decision): for every
\* combination of layer verdicts and both strict_mode values, the outcome
\* validate_keyword returns equals the outcome of the final decision rule on
\* the verdicts of all layers, whatever the skipped layers would have said.
C26_Original ==
    vpc = "done" =>
        \A l2 \in Layer2Completions : \A l3 \in Layer3Completions :
            vret.valid = FullEvaluation(l2, l3)

\* C26 (Short-circuit and the decision): a call that takes no early exit
\* returns the final decision rule on the layers it evaluated; an early exit
\* always rejects; in strict mode that rejection equals the all-accept rule
\* for every verdict of the skipped layers, unless the exit was the Layer 2
\* veto of a believable verdict. (In non-strict mode the majority of all the
\* layers may accept what the early exit rejected.)
C26_ShortCircuitDecision ==
    vpc = "done" =>
        /\ ~vret.early =>
              /\ Layer2Completions = {L2} /\ Layer3Completions = {L3}
              /\ vret.valid = FullEvaluation(L2, L3)
        /\ vret.early => ~vret.valid
        /\ (vret.early /\ vin.strict_mode /\ ~BelievableVeto) =>
              \A l2 \in Layer2Completions : \A l3 \in Layer3Completions :
                  ~FullEvaluation(l2, l3)

\* C26 witness: a non-strict call rejected by the Layer 1 early exit although
\* the skipped layers could both accept, which the majority rule would pass.
C26_Witness ==
    /\ vpc = "done" /\ vret.early /\ ~vret.valid
    /\ ~vin.strict_mode /\ cfg.hasLLM
    /\ L2 = None /\ L3 = None
    /\ \E l2 \in Layer2Completions : \E l3 \in Layer3Completions :
          FullEvaluation(l2, l3)

\* The strict-mode divergence: the Layer 2 veto of a believable verdict.
C26_StrictVeto ==
    /\ vpc = "done" /\ vret.early /\ vin.strict_mode /\ BelievableVeto
    /\ \E l3 \in Layer3Completions : FullEvaluation(L2, l3)


(***************************************************************************)
(* C27: malformed sites and termination of _extract_items                  *)
(***************************************************************************)

\* The values the variable pos of the PATTERN 1 loop takes, one per
\* iteration, from scan position pos on.
RECURSIVE ScanPositions(_, _)
ScanPositions(s, pos) ==
    LET match == CustomItemSearch(s, pos)
    IN  IF match = None THEN <<pos>>
        ELSE LET brace_start == match.end - 1
                 sc == ScanBraces(s, brace_start + 1, 1)
             IN  <<pos>> \o ScanPositions(s, IF sc.brace_count = 0 THEN sc.i
                                             ELSE brace_start + 1)

\* The offsets of the custom item commands of s whose opening brace has no
\* matching closing brace.
MalformedCommands(s) ==
    { p \in 0..(Len(s) - 1) :
        CustomItemEnd(s, p) # -1 /\ MatchingEnds(s, CustomItemEnd(s, p) - 1) = {} }

\* The balanced command at offset p lies inside the argument of another
\* balanced command.
NestedCommand(s, p) ==
    \E q \in BalancedCommands(s) :
        q < p /\ \E e \in MatchingEnds(s, CustomItemEnd(s, q) - 1) : p < e

\* C27 (Malformed site handling and termination). On every document the scan
\* position of _extract_items strictly increases from one loop iteration to
\* the next and never passes the end of the document, so the loop ends after
\* at most Len(document) + 1 iterations; the call returns a list in which no
\* span starts at a command whose opening brace has no matching closing
\* brace; and every balanced item command that starts after such a command
\* is extracted: it starts a span, or, when it is nested in the argument of
\* another balanced command, lies inside a span.
C27_MalformedSiteSkipped ==
    \A c \in 1..Len(extracted) :
        \A r \in { extracted[c] }, ps \in { ScanPositions(latex_content, 0) },
           bad \in { MalformedCommands(latex_content) },
           cmds \in { BalancedCommands(latex_content) } :
            /\ \A k \in 1..Len(ps) : ps[k] \in 0..Len(latex_content)
            /\ \A k \in 1..(Len(ps) - 1) : ps[k] < ps[k + 1]
            /\ \A i \in 1..Len(r) : r[i].start_pos \notin bad
            /\ \A m \in bad : \A p \in cmds :
                  m < p =>
                     /\ \E i \in 1..Len(r) :
                           r[i].start_pos <= p /\ p < r[i].end_pos
                     /\ ~NestedCommand(latex_content, p) =>
                           \E i \in 1..Len(r) : r[i].start_pos = p

\* C27 witness: a call has returned from a document in which an unbalanced
\* command is followed by a balanced one, and a span starts at the latter.
C27_Witness ==
    /\ extracted # <<>>
    /\ \E m \in MalformedCommands(latex_content) :
          \E i \in 1..Len(extracted[1]) :
              /\ m < extracted[1][i].start_pos
              /\ extracted[1][i].start_pos \in BalancedCommands(latex_content)


(***************************************************************************)
(* C28: the placement the loop body acts on                                *)
(***************************************************************************)

\* The ledger entries one iteration of the loop over the terms appended.
NewEntries == { changes_made'[k] : k \in (Len(changes_made) + 1)..Len(changes_made') }

\* C28 as stated (Placement selection), over one iteration of the loop: an
\* edit is made only at the site the placement search selected (the accepted
\* site with the highest score, the earliest on a tie), with a score in
\* 0..100 (kept in thousandths); and a term for which the search selected no
\* site is deferred to the fallback and not inserted into a bullet.  The
\* second rewrite of the loop body breaks it: see C28_Original's trace.
C28_Original ==
    [][(opc = "loop" /\ processed' # processed) =>
          /\ \A e \in NewEntries :
                /\ e.site = best_bullet_idx'
                /\ e.placement_score \in 0..(100 * 1000)
          /\ best_bullet_idx' = -1 =>
                /\ NewEntries = {}
                /\ optimized_latex' = optimized_latex]_vars


(***************************************************************************)
(* The AI-backed Layer 1 called directly: AdaptiveTechValidator with its   *)
(* compatibility_cache.  Terms and contexts are character sequences here,  *)
(* so that the cache key is computed as the code computes it.              *)
(***************************************************************************)

KeyPrefix == 50     \* context[:50]

\* cache_key = f"{keyword.lower()}::{context[:50].lower()}"
\* A mutant of the key: the whole context is part of it.
cache_key_whole_context(keyword, context) ==
    lower(keyword) \o <<":", ":">> \o lower(context)

cache_key(keyword, context) ==
    lower(keyword) \o <<":", ":">>
        \o lower(Slice(context, 0, Min(KeyPrefix, Len(context))))

\* The terms and contexts of the direct calls: one term in two spellings, two
\* contexts that differ in their 51st character only, and a short context.
LayerTerms == { <<"g", "o">>, <<"G", "o">> }
LongPrefix == SubSeq([k \in 1..KeyPrefix |-> IF k = 1 THEN "B" ELSE "a"], 1, KeyPrefix)
LayerContexts == { LongPrefix \o <<"x">>, LongPrefix \o <<"y">>, <<"Q", "a">> }

\* AdaptiveTechValidator.validate_keyword_in_context.  tick is not in the
\* code: it flips at every call, so that a call is a visible step.
ValidateInContext ==
    /\ \E keyword \in LayerTerms, context \in LayerContexts :
          LET key == cache_key(keyword, context)
          IN  IF key \in DOMAIN compatibility_cache
              THEN /\ l1call' = [keyword |-> keyword, context |-> context,
                                 called |-> FALSE,
                                 result |-> compatibility_cache[key],
                                 tick |-> 1 - l1call.tick]
                   /\ UNCHANGED compatibility_cache
              ELSE \E reply \in L1Replies :
                      /\ l1call' = [keyword |-> keyword, context |-> context,
                                    called |-> TRUE,
                                    result |-> AdaptiveResult(reply),
                                    tick |-> 1 - l1call.tick]
                      /\ compatibility_cache' =
                            IF reply.kind = "ok"
                            THEN CachePut(compatibility_cache, key,
                                          AdaptiveResult(reply))
                            ELSE compatibility_cache
    /\ UNCHANGED <<cfg, model_loaded, vpc, vin, results, vret, stats, l3call,
                   pvars, ovars>>

\* AdaptiveTechValidator.clear_cache
ClearCache ==
    /\ compatibility_cache' = EmptyCache
    /\ UNCHANGED <<cfg, model_loaded, vpc, vin, results, vret, stats, l3call,
                   l1call, pvars, ovars>>

InitA ==
    /\ cfg = [adaptive |-> TRUE, hasLLM |-> FALSE]
    /\ model_loaded \in BOOLEAN
    /\ vpc = "idle"
    /\ vin = NoCall
    /\ results = EmptyResults
    /\ vret = None
    /\ stats = ZeroStats
    /\ compatibility_cache = EmptyCache
    /\ l3call = NoL3Call
    /\ l1call = NoL1Call
    /\ IdleP
    /\ IdleO

NextA ==
    \/ ValidateInContext
    \/ ClearCache

SpecA == InitA /\ [][NextA]_vars

\* A step in which a call of validate_keyword_in_context returns, and the
\* key of that call.
LayerCallReturns == l1call'.tick # l1call.tick
ReturnedKey == cache_key(l1call'.keyword, l1call'.context)

\* The call that returns has the term of the call before it and a context
\* with the same first 50 characters.
SamePrefixAsBefore ==
    /\ l1call.result # None
    /\ l1call'.keyword = l1call.keyword
    /\ Slice(l1call'.context, 0, Min(KeyPrefix, Len(l1call'.context)))
          = Slice(l1call.context, 0, Min(KeyPrefix, Len(l1call.context)))

\* A call whose key is stored returns the stored verdict, calls no service
\* and leaves the cache as it is.
HitReturnsStored ==
    [][(LayerCallReturns /\ ReturnedKey \in DOMAIN compatibility_cache) =>
          /\ ~l1call'.called
          /\ l1call'.result = compatibility_cache[ReturnedKey]
          /\ compatibility_cache' = compatibility_cache]_vars

\* A call whose key is not stored calls the service; a parsed reply is stored
\* under the key, a failed call returns accept-LOW and stores nothing.
MissStoresParsedOnly ==
    [][(LayerCallReturns /\ ReturnedKey \notin DOMAIN compatibility_cache) =>
          /\ l1call'.called
          /\ IF l1call'.result.source = "ok"
             THEN compatibility_cache' =
                     CachePut(compatibility_cache, ReturnedKey, l1call'.result)
             ELSE /\ l1call'.result.valid /\ l1call'.result.confidence = "LOW"
                  /\ compatibility_cache' = compatibility_cache]_vars

\* clear_cache, the only other step, empties the cache.
ClearEmpties ==
    [][~LayerCallReturns => compatibility_cache' = EmptyCache]_vars

\* No degraded verdict is in the cache.
CachedAreParsed ==
    \A k \in DOMAIN compatibility_cache : compatibility_cache[k].source = "ok"

\* The key depends on the lower-cased term and the lower-cased first 50
\* characters of the context only.
KeyIgnoresTail ==
    \A k1, k2 \in LayerTerms : \A c1, c2 \in LayerContexts :
        ( /\ lower(k1) = lower(k2)
          /\ lower(Slice(c1, 0, Min(KeyPrefix, Len(c1))))
                = lower(Slice(c2, 0, Min(KeyPrefix, Len(c2)))) )
        <=> cache_key(k1, c1) = cache_key(k2, c2)

\* C29 as stated (Layer A cache): a stored key is answered from the cache
\* without a service call, only parsed replies are stored, clear_cache
\* empties the cache, and a call with the same term as the call before it and
\* a context that differs from that call's only after the first 50
\* characters receives the same verdict.
C29_Original ==
    /\ HitReturnsStored /\ MissStoresParsedOnly /\ ClearEmpties
    /\ []CachedAreParsed
    /\ [][(LayerCallReturns /\ SamePrefixAsBefore) =>
             l1call'.result = l1call.result]_vars

\* C29 (Layer A cache): a stored key is answered from the cache without a
\* service call, only parsed replies are stored (a degraded accept-LOW
\* verdict never is), clear_cache empties the cache, and the key ignores the
\* context behind its first 50 characters and the case of term and context;
\* so a call with the term of the call before it and a context that differs
\* only after the first 50 characters receives the same verdict whenever the
\* key is still stored, that is, when the earlier verdict came from a parsed
\* reply and the cache was not cleared in between.
C29_LayerACache ==
    /\ HitReturnsStored /\ MissStoresParsedOnly /\ ClearEmpties
    /\ [](CachedAreParsed /\ KeyIgnoresTail)
    /\ [][(/\ LayerCallReturns /\ SamePrefixAsBefore
           /\ ReturnedKey \in DOMAIN compatibility_cache) =>
             l1call'.result = l1call.result]_vars

\* C29 witness: a call with the capitalised term and the second long context
\* was answered from the cache, with a verdict that rejects.
C29_Witness ==
    /\ l1call.result # None /\ ~l1call.called
    /\ l1call.keyword = <<"G", "o">>
    /\ l1call.context = LongPrefix \o <<"y">>
    /\ ~l1call.result.valid
    /\ cache_key(l1call.keyword, l1call.context) \in DOMAIN compatibility_cache


(***************************************************************************)
(* C30: the returned document, accepted_terms and the ledger               *)
(***************************************************************************)

\* The bullet edits es, applied in order to doc, each found its before text
\* in the document as it was when the edit was made; the document after the
\* last of them.
RECURSIVE SubstitutedInOrder(_, _)
SubstitutedInOrder(doc, es) ==
    IF es = <<>> THEN [found |-> TRUE, doc |-> doc]
    ELSE IF ~Contains(doc, Head(es).before) THEN [found |-> FALSE, doc |-> doc]
    ELSE SubstitutedInOrder(Replace1(doc, Head(es).before, Head(es).after),
                            Tail(es))

\* The number of entries of the sequence of terms s that are the term t.
CountOf(s, t) == Cardinality({ k \in 1..Len(s) : s[k] = t })

\* C30 as stated (Result consistency): at the end of every optimize call each
\* term of accepted_terms occurs case-insensitively in the returned document
\* and accepted_terms holds each term as often as the ledger has entries for
\* it; and every bullet edit the loop appended to the ledger found its before
\* text in the document when it was substituted, the document after the
\* iteration being the result of these substitutions.  The stale item list
\* and the second rewrite break it: see C30_Original's trace.
C30_Original ==
    /\ [](opc = "done" =>
            /\ \A k \in 1..Len(oret.added_keywords) :
                  Contains(lower(oret.optimized_latex),
                           lower(oret.added_keywords[k]))
            /\ \A k \in 1..Len(oret.added_keywords) :
                  CountOf(oret.added_keywords, oret.added_keywords[k])
                     = CountOf([j \in 1..Len(oret.changes_made) |->
                                   oret.changes_made[j].keyword],
                               oret.added_keywords[k])
            /\ Len(oret.added_keywords) = Len(oret.changes_made))
    /\ [][(opc = "loop" /\ processed' # processed) =>
             \A r \in { SubstitutedInOrder(optimized_latex,
                            SubSeq(changes_made', Len(changes_made) + 1,
                                   Len(changes_made'))) } :
                 r.found /\ r.doc = optimized_latex']_vars


====
